---- MODULE Spec2Model ----
(***************************************************************************)
(* Client-side session and settings state machine of profilespaces         *)
(* (src/ui/src/App.jsx): AuthProvider (token, user, isRestoring, durable   *)
(* record), the SettingsPage draft/saved pair with its navigation guard,   *)
(* the availability checker and the asynchronous requests in flight.       *)
(*                                                                         *)
(* Text values are sequences of one-character strings, so that trim(),     *)
(* toLowerCase() and the handle pattern are computed, not assumed.  An     *)
(* absent or undefined text is the empty sequence: the code coalesces both *)
(* with `|| ""`.  Optional booleans of a server object are the strings     *)
(* "true", "false" and "absent", because `??` tells absent from false.     *)
(***************************************************************************)
EXTENDS Integers, Sequences, FiniteSets, TLC

----------------------------------------------------------------------------
(* Bounds of the model *)

\* at most this many requests are in flight at once
MaxInFlight == 4

\* the per-field availability sequence counter is explored up to this value
MaxSeq == 3

----------------------------------------------------------------------------
(* Text helpers *)

LowerLetters ==
  <<"a","b","c","d","e","f","g","h","i","j","k","l","m",
    "n","o","p","q","r","s","t","u","v","w","x","y","z">>

UpperLetters ==
  <<"A","B","C","D","E","F","G","H","I","J","K","L","M",
    "N","O","P","Q","R","S","T","U","V","W","X","Y","Z">>

Digits == {"0","1","2","3","4","5","6","7","8","9"}

Range(f) == {f[i] : i \in DOMAIN f}

\* String.prototype.toLowerCase, one character
ToLowerChar(c) ==
  IF \E i \in DOMAIN UpperLetters : UpperLetters[i] = c
  THEN LowerLetters[CHOOSE i \in DOMAIN UpperLetters : UpperLetters[i] = c]
  ELSE c

toLowerCase(s) == [i \in 1..Len(s) |-> ToLowerChar(s[i])]

IsSpace(c) == c = " "

RECURSIVE TrimLeft(_)
TrimLeft(s) ==
  IF s # <<>> /\ IsSpace(Head(s)) THEN TrimLeft(Tail(s)) ELSE s

RECURSIVE TrimRight(_)
TrimRight(s) ==
  IF s # <<>> /\ IsSpace(s[Len(s)]) THEN TrimRight(SubSeq(s, 1, Len(s) - 1)) ELSE s

\* String.prototype.trim
trim(s) == TrimRight(TrimLeft(s))

\* the quantifier bounds of /^[a-zA-Z0-9._-]{3,30}$/
HandleMinLen == 3

HandleMaxLen == 30

HandleChars == Range(LowerLetters) \cup Range(UpperLetters) \cup Digits \cup {".", "_", "-"}

\* usernamePattern.test(s)
usernamePattern(s) ==
  /\ Len(s) >= HandleMinLen
  /\ Len(s) <= HandleMaxLen
  /\ \A i \in 1..Len(s) : s[i] \in HandleChars

RESERVED_HANDLES ==
  { <<"a","d","m","i","n">>,
    <<"s","u","p","p","o","r","t">>,
    <<"p","r","o","f","i","l","e","s","p","a","c","e","s">>,
    <<"p","r","o","f","i","l","e">>,
    <<"s","e","t","t","i","n","g","s">> }

\* a text of n copies of the character c
Rep(c, n) == [i \in 1..n |-> c]

\* the element of a one-element set; { F(x) : x \in {e} } evaluates e once
One(S) == CHOOSE x \in S : TRUE

----------------------------------------------------------------------------
(* sampleProfile, the placeholder shown when there is no user *)

\* "Mika Franco"
SampleDisplayName ==
  <<"M","i","k","a"," ","F","r","a","n","c","o">>

\* "mikefranco"
SampleUsername ==
  <<"m","i","k","e","f","r","a","n","c","o">>

\* "Building quietly this week."
SampleStatus ==
  <<"B","u","i","l","d","i","n","g"," ","q","u","i","e","t","l","y"," ","t",
    "h","i","s"," ","w","e","e","k",".">>

\* "Builder. Minimalist. Learning in public. Sharing what matters and staying calm through the noise."
SampleBio ==
  <<"B","u","i","l","d","e","r","."," ","M","i","n","i","m","a","l","i","s",
    "t","."," ","L","e","a","r","n","i","n","g"," ","i","n"," ","p","u","b",
    "l","i","c","."," ","S","h","a","r","i","n","g"," ","w","h","a","t"," ",
    "m","a","t","t","e","r","s"," ","a","n","d"," ","s","t","a","y","i","n",
    "g"," ","c","a","l","m"," ","t","h","r","o","u","g","h"," ","t","h","e",
    " ","n","o","i","s","e",".">>

\* "Lapu-Lapu City, Cebu"
SampleLocation ==
  <<"L","a","p","u","-","L","a","p","u"," ","C","i","t","y",","," ","C","e",
    "b","u">>

\* "Quiet systems"
SampleInterest1 ==
  <<"Q","u","i","e","t"," ","s","y","s","t","e","m","s">>

\* "Product design"
SampleInterest2 ==
  <<"P","r","o","d","u","c","t"," ","d","e","s","i","g","n">>

\* "Minimal living"
SampleInterest3 ==
  <<"M","i","n","i","m","a","l"," ","l","i","v","i","n","g">>

\* "City walks"
SampleInterest4 ==
  <<"C","i","t","y"," ","w","a","l","k","s">>

\* "Collaboration"
SampleInterest5 ==
  <<"C","o","l","l","a","b","o","r","a","t","i","o","n">>

\* "Profile"
TxtProfile ==
  <<"P","r","o","f","i","l","e">>


sampleProfile ==
  [ displayName |-> SampleDisplayName,
    username    |-> SampleUsername,
    profileUrl  |-> SampleUsername,
    status      |-> SampleStatus,
    bio         |-> SampleBio,
    location    |-> SampleLocation,
    interests   |-> <<SampleInterest1, SampleInterest2, SampleInterest3,
                      SampleInterest4, SampleInterest5>>,
    photoUrl    |-> <<>>,
    visibility  |-> "public",
    theme       |-> "",
    showLocation |-> TRUE,
    allowSearch  |-> TRUE ]

----------------------------------------------------------------------------
(* Server objects.  `user` is the session user (snake_case keys of the     *)
(* API); exists = FALSE is the null user.  A text that is absent is <<>>,  *)
(* an enum that is absent is "", an optional boolean is "true", "false"    *)
(* or "absent".                                                            *)

NullUser ==
  [ exists |-> FALSE, name |-> <<>>, username |-> <<>>, profile_url |-> <<>>,
    status |-> <<>>, bio |-> <<>>, location |-> <<>>, interests |-> <<>>,
    photo_url |-> <<>>, visibility |-> "", theme |-> "",
    show_location |-> "absent", allow_search |-> "absent" ]

\* a || b on texts: the first operand unless it is falsy (empty or absent)
OrText(a, b) == IF a = <<>> THEN b ELSE a

\* a || b on enum strings
OrEnum(a, b) == IF a = "" THEN b ELSE a

\* Boolean(b ?? false) of an optional boolean
BoolOf(b) == b = "true"

OptOf(b) == IF b THEN "true" ELSE "false"

mapUserToProfile(u) ==
  [ displayName |-> OrText(u.name, OrText(u.username, TxtProfile)),
    username    |-> u.username,
    profileUrl  |-> OrText(u.profile_url, u.username),
    status      |-> u.status,
    bio         |-> u.bio,
    location    |-> u.location,
    interests   |-> u.interests,
    photoUrl    |-> u.photo_url,
    visibility  |-> OrEnum(u.visibility, "public"),
    theme       |-> OrEnum(u.theme, "system"),
    showLocation |-> BoolOf(u.show_location),
    allowSearch  |-> BoolOf(u.allow_search) ]

\* mapUserToProfile(user) || sampleProfile
baseProfile(u) == IF u.exists THEN mapUserToProfile(u) ELSE sampleProfile

buildDefaults(u) ==
  LET b == baseProfile(u) IN
  [ displayName |-> b.displayName,
    username    |-> b.username,
    profileUrl  |-> OrText(b.profileUrl, b.username),
    bio         |-> b.bio,
    location    |-> b.location,
    interests   |-> b.interests,
    status      |-> b.status,
    photoUrl    |-> b.photoUrl,
    visibility  |-> OrEnum(b.visibility, "public"),
    showLocation |-> b.showLocation /\ b.location # <<>>,
    allowSearch  |-> b.allowSearch,
    emailNotifications |-> TRUE,
    productUpdates     |-> TRUE,
    newFollowerAlerts  |-> FALSE,
    weeklyDigest       |-> FALSE,
    pauseNotifications |-> "off",
    theme       |-> OrEnum(b.theme, "system") ]

----------------------------------------------------------------------------
(* Sections and their field lists *)

settingsSectionIds ==
  {"account", "profile", "privacy", "notifications", "appearance", "help"}

resolveSection(tabValue) ==
  IF tabValue \in settingsSectionIds THEN tabValue ELSE "account"

ProfileFields ==
  {"displayName", "username", "profileUrl", "bio", "location", "interests",
   "status", "photoUrl"}

PrivacyFields == {"visibility", "showLocation", "allowSearch"}

NotificationFields ==
  {"emailNotifications", "productUpdates", "newFollowerAlerts", "weeklyDigest",
   "pauseNotifications"}

AppearanceFields == {"theme"}

sectionFieldMap(sectionId) ==
  CASE sectionId = "profile" -> ProfileFields
    [] sectionId = "privacy" -> PrivacyFields
    [] sectionId = "notifications" -> NotificationFields
    [] sectionId = "appearance" -> AppearanceFields
    [] OTHER -> {}

\* the characters of a text with those that JSON escapes behind a backslash
RECURSIVE EscapeFrom(_)
EscapeFrom(s) ==
  IF s = <<>> THEN <<>>
  ELSE (IF Head(s) \in {"\"", "\\"} THEN <<"\\", Head(s)>> ELSE <<Head(s)>>)
       \o EscapeFrom(Tail(s))

Escaped(s) ==
  IF \A i \in DOMAIN s : s[i] \notin {"\"", "\\"} THEN s ELSE EscapeFrom(s)

\* JSON.stringify of a string, as its sequence of characters
QuoteText(s) == <<"\"">> \o Escaped(s) \o <<"\"">>

\* the elements of an array, each one stringified, with commas between them
RECURSIVE Joined(_)
Joined(list) ==
  IF list = <<>> THEN <<>>
  ELSE IF Len(list) = 1 THEN QuoteText(Head(list))
  ELSE QuoteText(Head(list)) \o <<",">> \o Joined(Tail(list))

\* a stringify that does not escape the characters of a string
JSONstringifyUnescaped(field, value) ==
  CASE field = "interests" ->
         <<"[">> \o (IF Len(value) = 0 THEN <<>>
                     ELSE IF Len(value) = 1 THEN <<"\"">> \o value[1] \o <<"\"">>
                     ELSE <<"\"">> \o value[1] \o <<"\"", ",", "\"">> \o value[2]
                          \o <<"\"">>)
         \o <<"]">>
    [] field \in {"showLocation", "allowSearch", "emailNotifications",
                  "productUpdates", "newFollowerAlerts", "weeklyDigest"} ->
         IF value THEN <<"t","r","u","e">> ELSE <<"f","a","l","s","e">>
    [] field \in {"visibility", "theme", "pauseNotifications"} ->
         <<"\"", value, "\"">>
    [] OTHER -> <<"\"">> \o value \o <<"\"">>

\* JSON.stringify(value) for the value of a field of saved or draft: an array
\* of strings, a boolean, one of the option strings, or a string
JSONstringify(field, value) ==
  CASE field = "interests" -> <<"[">> \o Joined(value) \o <<"]">>
    [] field \in {"showLocation", "allowSearch", "emailNotifications",
                  "productUpdates", "newFollowerAlerts", "weeklyDigest"} ->
         IF value THEN <<"t","r","u","e">> ELSE <<"f","a","l","s","e">>
    [] field \in {"visibility", "theme", "pauseNotifications"} ->
         <<"\"", value, "\"">>
    [] OTHER -> QuoteText(value)

\* hasSectionChanges, on an explicit saved/draft pair
SectionChanged(sv, dr, sectionId) ==
  \E f \in sectionFieldMap(sectionId) :
    JSONstringify(f, sv[f]) # JSONstringify(f, dr[f])

----------------------------------------------------------------------------
(* State *)

VARIABLES
  token,                  \* AuthProvider: useState("")
  user,                   \* AuthProvider: useState(null)
  isRestoring,            \* AuthProvider: useState(true)
  storage,                \* localStorage[AUTH_STORAGE_KEY]
  route,                  \* the mounted page: "/", "/profile" or "/settings"
  booted,                 \* whether the mount effects of the page load have run
  net,                    \* the asynchronous calls in flight, with their closures
  saved,                  \* SettingsPage: last confirmed values
  draft,                  \* SettingsPage: values being edited
  activeSection,
  tab,                    \* searchParams.get("tab"); "" when absent
  isMobile,               \* useMediaQuery("(max-width: 959px)")
  showMobileList,
  pendingSection,         \* "" for null, a section id, "list" or "back"
  discardOpen,
  isSaving,
  profileLoading,
  photoUploading,
  passwordSaving,
  profileErrors,          \* the keys of the profile error map
  availability,
  availabilityRequestRef,
  notificationsLoaded,
  toast,                  \* the toast last shown by the mounted page
  timerRef,               \* useToast: the timer of the last showToast call, 0 for none
  timers,                 \* useToast: the dismissal timers that are pending
  formErrors,             \* LoginForm/SignupForm: the keys of the error map
  formError,              \* LoginForm/SignupForm: whether the form banner is set
  changeEmailOpen,        \* SettingsPage: the "Change email" dialog is open
  emailErrors,            \* SettingsPage: the keys of the email error map
  ev                      \* the handler that ran last, with its request and response

vars ==
  << token, user, isRestoring, storage, route, booted, net, saved, draft,
     activeSection, tab, isMobile, showMobileList, pendingSection, discardOpen,
     isSaving, profileLoading, photoUploading, passwordSaving, profileErrors,
     availability, availabilityRequestRef, notificationsLoaded, toast,
     timerRef, timers, formErrors, formError, changeEmailOpen, emailErrors, ev >>

\* the durable record: absent, unparsable, or {token, user}
NoRecord == [kind |-> "none", token |-> "", user |-> NullUser]

Garbage == [kind |-> "garbage", token |-> "", user |-> NullUser]

StoredRecord(t, u) == [kind |-> "record", token |-> t, user |-> u]

NoToast == [message |-> "", type |-> "", fresh |-> FALSE]

\* setToast({message, type}) inside showToast; `fresh` marks the call until
\* the same call has set its dismissal timer
Toast(m, t) == [message |-> m, type |-> t, fresh |-> TRUE]

NeutralAvailability == [username |-> "neutral", profileUrl |-> "neutral"]

\* a call in flight: the request and what its continuation closes over.
\* isActive is the flag of the effect run that made the call (for a lookup:
\* whether its id is still the one in availabilityRequestRef, once its page is
\* gone); live says that the component instance that made the call is still
\* mounted.  Three fields record history and are read by no handler:
\* restoring (isRestoring in the render that made the call), latest (no
\* checkAvailability on the same field has been invoked since) and
\* uAnswer/pAnswer (what each lookup of a save found out).
NoReq ==
  [ kind |-> "none", section |-> "", field |-> "", seq |-> 0, value |-> <<>>,
    owner |-> "", uStatus |-> "", pStatus |-> "", cdraft |-> buildDefaults(NullUser),
    csaved |-> buildDefaults(NullUser), cuser |-> NullUser, token |-> "",
    isActive |-> FALSE, live |-> FALSE, copy |-> 0,
    restoring |-> FALSE, latest |-> FALSE, uAnswer |-> "", pAnswer |-> "" ]

\* data.profile of /auth/profile/ (snake_case keys); absent values as for the user
NullProfile ==
  [ display_name |-> <<>>, username |-> <<>>, profile_url |-> <<>>,
    status |-> <<>>, bio |-> <<>>, location |-> <<>>, interests |-> <<>>,
    photo_url |-> <<>>, visibility |-> "", theme |-> "",
    show_location |-> "absent", allow_search |-> "absent" ]

\* data.notifications of /auth/notifications/
NoPrefs ==
  [ email_notifications |-> "absent", product_updates |-> "absent",
    new_follower_alerts |-> "absent", weekly_digest |-> "absent",
    pause_notifications |-> "" ]

\* the server's answer to a call: ok, an HTTP error, or no answer at all
NoResp ==
  [ status |-> "none", hasProfile |-> FALSE, profile |-> NullProfile,
    hasUser |-> FALSE, user |-> NullUser, token |-> "", available |-> FALSE,
    photo_url |-> <<>>, hasPrefs |-> FALSE, prefs |-> NoPrefs, errors |-> {} ]

Event(op, req, resp) == [op |-> op, req |-> req, resp |-> resp]

\* The state as one record, so that a handler and the effects it triggers
\* compose.  userTouched, mounted and overflow are not state: they say what
\* the handler did (setUser with a new object, a page mount, more calls than
\* MaxInFlight).
World ==
  [ token |-> token, user |-> user, isRestoring |-> isRestoring,
    storage |-> storage, route |-> route, booted |-> booted, net |-> net,
    saved |-> saved, draft |-> draft, activeSection |-> activeSection,
    tab |-> tab, isMobile |-> isMobile, showMobileList |-> showMobileList,
    pendingSection |-> pendingSection, discardOpen |-> discardOpen,
    isSaving |-> isSaving, profileLoading |-> profileLoading,
    photoUploading |-> photoUploading, passwordSaving |-> passwordSaving,
    profileErrors |-> profileErrors, availability |-> availability,
    availabilityRequestRef |-> availabilityRequestRef,
    notificationsLoaded |-> notificationsLoaded, toast |-> toast,
    timerRef |-> timerRef, timers |-> timers,
    formErrors |-> formErrors, formError |-> formError,
    changeEmailOpen |-> changeEmailOpen, emailErrors |-> emailErrors, ev |-> ev,
    userTouched |-> FALSE, mounted |-> FALSE, overflow |-> FALSE ]

Commit(w) ==
  /\ ~w.overflow
  /\ token' = w.token
  /\ user' = w.user
  /\ isRestoring' = w.isRestoring
  /\ storage' = w.storage
  /\ route' = w.route
  /\ booted' = w.booted
  /\ net' = w.net
  /\ saved' = w.saved
  /\ draft' = w.draft
  /\ activeSection' = w.activeSection
  /\ tab' = w.tab
  /\ isMobile' = w.isMobile
  /\ showMobileList' = w.showMobileList
  /\ pendingSection' = w.pendingSection
  /\ discardOpen' = w.discardOpen
  /\ isSaving' = w.isSaving
  /\ profileLoading' = w.profileLoading
  /\ photoUploading' = w.photoUploading
  /\ passwordSaving' = w.passwordSaving
  /\ profileErrors' = w.profileErrors
  /\ availability' = w.availability
  /\ availabilityRequestRef' = w.availabilityRequestRef
  /\ notificationsLoaded' = w.notificationsLoaded
  /\ toast' = w.toast
  /\ timerRef' = w.timerRef
  /\ timers' = w.timers
  /\ formErrors' = w.formErrors
  /\ formError' = w.formError
  /\ changeEmailOpen' = w.changeEmailOpen
  /\ emailErrors' = w.emailErrors
  /\ ev' = w.ev

----------------------------------------------------------------------------
(* Calls in flight *)

\* a call without the flags that change while it is in flight
Bare(r) == [r EXCEPT !.isActive = FALSE, !.live = FALSE, !.latest = FALSE, !.copy = 0]

\* the copy number that tells two identical calls in flight apart
FreeCopy(n, r) ==
  LET used == { q.copy : q \in { x \in n : Bare(x) = Bare(r) } } IN
  CHOOSE c \in 1..(MaxInFlight + 1) :
    /\ c \notin used
    /\ \A d \in 1..(c - 1) : d \in used

\* start a call: apiRequest(...) up to its await
Issue(w, r) ==
  One({ IF Cardinality(x.net) >= MaxInFlight
        THEN [x EXCEPT !.overflow = TRUE]
        ELSE [x EXCEPT !.net =
                @ \cup { [q EXCEPT !.copy = FreeCopy(x.net, q)] :
                          q \in {[r EXCEPT !.restoring = x.isRestoring]} }]
        : x \in {w} })

Remove(w, r) == [w EXCEPT !.net = @ \ {r}]

----------------------------------------------------------------------------
(* AuthProvider *)

\* setUser(u): a new object is a new identity even when its content is the same
setUser(w, u) ==
  [w EXCEPT !.user = u, !.userTouched = @ \/ u.exists \/ w.user.exists]

persistAuth(w, nextToken, nextUser) ==
  [setUser(w, nextUser) EXCEPT
     !.token = nextToken,
     !.storage = StoredRecord(nextToken, nextUser)]

\* a clearAuth that leaves the stored record in place
clearAuthKeepingRecord(w) == [setUser(w, NullUser) EXCEPT !.token = ""]

clearAuth(w) ==
  [setUser(w, NullUser) EXCEPT !.token = "", !.storage = NoRecord]

SessionReq(t) == [NoReq EXCEPT !.kind = "session", !.token = t, !.live = TRUE]

\* refreshSession(providedToken, silent) up to its await
refreshSession(w, providedToken) ==
  IF providedToken = ""
  THEN [w EXCEPT !.isRestoring = FALSE]
  ELSE [Issue(w, SessionReq(providedToken)) EXCEPT !.isRestoring = TRUE]

\* the restore effect, which runs at mount and whenever refreshSession is a new
\* callback, that is whenever token has changed
RestoreEffect(w) ==
  One({ CASE x.storage.kind = "none" -> [x EXCEPT !.isRestoring = FALSE]
          [] x.storage.kind = "garbage" ->
               [x EXCEPT !.storage = NoRecord, !.isRestoring = FALSE]
          [] OTHER ->
               IF x.storage.token # ""
               THEN refreshSession(
                      [x EXCEPT !.token = x.storage.token,
                                !.user = IF x.storage.user.exists
                                         THEN x.storage.user ELSE @,
                                !.userTouched = @ \/ x.storage.user.exists],
                      x.storage.token)
               ELSE [x EXCEPT !.isRestoring = FALSE]
        : x \in {w} })

----------------------------------------------------------------------------
(* Pages: mount, unmount and effects *)

\* every continuation but the AuthProvider's own belongs to the page that
\* started it: when the page unmounts its effect cleanups run (isActive =
\* false) and its state setters no longer do anything
Detach(n, ref) ==
  { CASE r.kind = "session" -> r
      [] r.kind = "avail" /\ r.live ->
           [r EXCEPT !.live = FALSE, !.isActive = (ref[r.field] = r.seq)]
      [] r.kind = "avail" -> r
      [] OTHER -> [r EXCEPT !.live = FALSE, !.isActive = FALSE]
    : r \in n }

\* the SettingsPage state of a fresh instance (the useState initialisers)
SettingsInit(w, tabValue) ==
  [w EXCEPT
     !.saved = buildDefaults(w.user),
     !.draft = buildDefaults(w.user),
     !.activeSection = resolveSection(tabValue),
     !.tab = tabValue,
     !.showMobileList = w.isMobile,
     !.pendingSection = "",
     !.discardOpen = FALSE,
     !.isSaving = FALSE,
     !.profileLoading = FALSE,
     !.photoUploading = FALSE,
     !.passwordSaving = FALSE,
     !.profileErrors = {},
     !.changeEmailOpen = FALSE,
     !.emailErrors = {},
     !.availability = NeutralAvailability,
     !.availabilityRequestRef = [username |-> 0, profileUrl |-> 0],
     !.notificationsLoaded = FALSE]

\* no SettingsPage is mounted: its state does not exist
SettingsGone(w) ==
  [SettingsInit([w EXCEPT !.user = NullUser], "") EXCEPT
     !.user = w.user, !.showMobileList = FALSE]

\* navigate(path): the mounted page unmounts and the page of `path` mounts
Navigate(w, path, tabValue) ==
  LET left == [w EXCEPT !.net = Detach(@, w.availabilityRequestRef), !.toast = NoToast,
                        !.timerRef = 0, !.timers = {},
                        !.formErrors = {}, !.formError = FALSE,
                        !.route = path, !.mounted = TRUE]
  IN  IF path = "/settings" THEN SettingsInit(left, tabValue) ELSE SettingsGone(left)

hasProfileChanges(w) == SectionChanged(w.saved, w.draft, "profile")

hasPrivacyChanges(w) == SectionChanged(w.saved, w.draft, "privacy")

hasSectionChanges(w, sectionId) == SectionChanged(w.saved, w.draft, sectionId)

GetProfileReq(t) ==
  [NoReq EXCEPT !.kind = "getProfile", !.token = t, !.isActive = TRUE, !.live = TRUE]

GetNotificationsReq(t) ==
  [NoReq EXCEPT !.kind = "getNotifications", !.token = t, !.isActive = TRUE,
                !.live = TRUE]

\* an effect cleanup: isActive = false in the closure of the previous run
Deactivate(w, kind) ==
  [w EXCEPT !.net = { IF r.kind = kind THEN [r EXCEPT !.isActive = FALSE] ELSE r
                      : r \in @ }]

\* useEffect [buildDefaults]: reset saved and draft to the defaults of the user
DefaultsEffect(cur, nxt) ==
  IF cur.mounted \/ cur.userTouched
  THEN [nxt EXCEPT !.saved = buildDefaults(cur.user),
                   !.draft = buildDefaults(cur.user),
                   !.availability = NeutralAvailability,
                   !.notificationsLoaded = FALSE]
  ELSE nxt

\* useEffect [activeSection, isMobile, searchParams]: follow the tab parameter
SearchParamsEffect(prev, cur, nxt) ==
  IF \/ cur.mounted
     \/ cur.activeSection # prev.activeSection
     \/ cur.isMobile # prev.isMobile
     \/ cur.tab # prev.tab
  THEN LET nextSection == resolveSection(cur.tab) IN
       [nxt EXCEPT
          !.activeSection = nextSection,
          !.showMobileList = IF cur.isMobile THEN cur.tab = "" ELSE FALSE,
          !.tab = IF cur.tab \notin settingsSectionIds /\ ~cur.isMobile
                  THEN nextSection ELSE cur.tab]
  ELSE nxt

\* useEffect loadNotifications
NotificationsEffect(prev, cur, nxt) ==
  IF \/ cur.mounted
     \/ cur.userTouched
     \/ cur.activeSection # prev.activeSection
     \/ cur.isRestoring # prev.isRestoring
     \/ cur.notificationsLoaded # prev.notificationsLoaded
     \/ cur.token # prev.token
  THEN LET cleaned == Deactivate(nxt, "getNotifications") IN
       IF /\ cur.user.exists
          /\ cur.token # ""
          /\ ~cur.isRestoring
          /\ ~cur.notificationsLoaded
          /\ cur.activeSection = "notifications"
       THEN Issue(cleaned, GetNotificationsReq(cur.token))
       ELSE cleaned
  ELSE nxt

\* whether loadProfile goes on to its request
LoadProfileStarts(cur) ==
  /\ cur.token # ""
  /\ cur.user.exists
  /\ cur.activeSection \in {"profile", "privacy"}
  /\ ~hasProfileChanges(cur)
  /\ ~hasPrivacyChanges(cur)

\* useEffect loadProfile
LoadProfileEffect(prev, cur, nxt) ==
  IF \/ cur.mounted
     \/ cur.userTouched
     \/ cur.activeSection # prev.activeSection
     \/ cur.token # prev.token
     \/ hasProfileChanges(cur) # hasProfileChanges(prev)
     \/ hasPrivacyChanges(cur) # hasPrivacyChanges(prev)
  THEN LET cleaned == Deactivate(nxt, "getProfile") IN
       IF LoadProfileStarts(cur)
       THEN Issue([cleaned EXCEPT !.profileLoading = TRUE], GetProfileReq(cur.token))
       ELSE cleaned
  ELSE nxt

\* useEffect: if (!isRestoring && !user) navigate("/")
RedirectHome(cur, nxt) ==
  IF ~cur.isRestoring /\ ~cur.user.exists THEN Navigate(nxt, "/", "") ELSE nxt

SettingsEffects(prev, cur, nxt) ==
  One({ RedirectHome(cur, e4) :
        e4 \in { LoadProfileEffect(prev, cur, e3) :
        e3 \in { NotificationsEffect(prev, cur, e2) :
        e2 \in { SearchParamsEffect(prev, cur, e1) :
        e1 \in { DefaultsEffect(cur, nxt) } } } } })

\* LandingPage: if (user && !isRestoring) navigate("/profile")
LandingEffects(cur, nxt) ==
  IF cur.user.exists /\ ~cur.isRestoring THEN Navigate(nxt, "/profile", "") ELSE nxt

\* one commit: the effects of the mounted page, then those of AuthProvider,
\* all reading the values of the render `cur`; `prev` is the render before
Quiet(w) == [w EXCEPT !.userTouched = FALSE, !.mounted = FALSE, !.booted = TRUE]

EffectsPass(prev, cur) ==
  One({ IF ~cur.booted \/ cur.token # prev.token THEN RestoreEffect(page) ELSE page :
        page \in { CASE cur.route = "/settings" -> SettingsEffects(prev, cur, base)
                     [] cur.route = "/profile" -> RedirectHome(cur, base)
                     [] OTHER -> LandingEffects(cur, base) :
                   base \in { Quiet(cur) } } })

\* the dismissal timers one useToast instance may have pending in the model
MaxTimers == 2

\* the renders an effect's state updates cause are followed until none is left
MaxPasses == 8

RECURSIVE Settle(_, _, _)
Settle(prev, cur, fuel) ==
  One({ IF nxt = quiet \/ fuel = 0 \/ nxt.overflow
        THEN [nxt EXCEPT !.overflow = @ \/ (fuel = 0 /\ nxt # quiet)]
        ELSE Settle(quiet, nxt, fuel - 1) :
        nxt \in { EffectsPass(prev, cur) }, quiet \in { Quiet(cur) } })

\* the identifier setTimeout returns: one no pending timer has
NewTimer(pending) ==
  IF \E id \in 1..MaxTimers : id \notin pending
  THEN CHOOSE id \in 1..MaxTimers : id \notin pending /\ \A x \in 1..(id - 1) : x \in pending
  ELSE 0

\* showToast without the clearTimeout of the previous timer
showToastKeepingTimer(w) ==
  IF ~w.toast.fresh THEN w
  ELSE [w EXCEPT !.toast.fresh = FALSE,
                 !.timers = @ \cup {NewTimer(w.timers)},
                 !.timerRef = NewTimer(w.timers),
                 !.overflow = @ \/ NewTimer(w.timers) = 0]

\* the rest of the showToast call a handler made: the pending timer is
\* cleared and a new one set, which timerRef then holds
showToast(w) ==
  IF ~w.toast.fresh THEN w
  ELSE LET pending == w.timers \ {w.timerRef} IN
       [w EXCEPT !.toast.fresh = FALSE,
                 !.timers = pending \cup {NewTimer(pending)},
                 !.timerRef = NewTimer(pending),
                 !.overflow = @ \/ NewTimer(pending) = 0]

\* a handler ran on World and left `w`: render, run the effects, commit
Step(w) ==
  \E before \in {World} : \E cur \in {showToast(w)} :
    \E after \in {Settle(before, cur, MaxPasses)} : Commit(after)

----------------------------------------------------------------------------
(* Values the environment supplies: server objects, typed texts *)

TxtMika == <<"M","i","k","a">>

Txt_mika == <<"m","i","k","a">>

TxtCebu == <<"C","e","b","u">>

TxtHello == <<"H","e","l","l","o">>

\* the user the server holds at first
UserMika ==
  [ exists |-> TRUE, name |-> TxtMika, username |-> Txt_mika,
    profile_url |-> Txt_mika, status |-> <<>>, bio |-> <<>>,
    location |-> TxtCebu, interests |-> <<>>, photo_url |-> <<>>,
    visibility |-> "public", theme |-> "system",
    show_location |-> "true", allow_search |-> "true" ]

\* the same account after an edit made elsewhere
UserMikaEdited == [UserMika EXCEPT !.status = TxtHello, !.theme = "dark"]

\* session tokens the server hands out
Tokens == {"t1", "t2"}

----------------------------------------------------------------------------
(* Page load *)

InitWorld(st, path, tabValue, mobile) ==
  LET w0 == [ token |-> "", user |-> NullUser, isRestoring |-> TRUE,
              storage |-> st, route |-> path, booted |-> FALSE, net |-> {},
              saved |-> buildDefaults(NullUser), draft |-> buildDefaults(NullUser),
              activeSection |-> "account", tab |-> "", isMobile |-> mobile,
              showMobileList |-> FALSE, pendingSection |-> "",
              discardOpen |-> FALSE, isSaving |-> FALSE,
              profileLoading |-> FALSE, photoUploading |-> FALSE,
              passwordSaving |-> FALSE, profileErrors |-> {},
              availability |-> NeutralAvailability,
              availabilityRequestRef |-> [username |-> 0, profileUrl |-> 0],
              notificationsLoaded |-> FALSE, toast |-> NoToast,
              timerRef |-> 0, timers |-> {},
              formErrors |-> {}, formError |-> FALSE,
              changeEmailOpen |-> FALSE, emailErrors |-> {},
              ev |-> Event("Load", NoReq, NoResp),
              userTouched |-> FALSE, mounted |-> FALSE, overflow |-> FALSE ]
  IN  IF path = "/settings" THEN SettingsInit(w0, tabValue) ELSE w0

InitFrom(w) ==
  /\ token = w.token
  /\ user = w.user
  /\ isRestoring = w.isRestoring
  /\ storage = w.storage
  /\ route = w.route
  /\ booted = w.booted
  /\ net = w.net
  /\ saved = w.saved
  /\ draft = w.draft
  /\ activeSection = w.activeSection
  /\ tab = w.tab
  /\ isMobile = w.isMobile
  /\ showMobileList = w.showMobileList
  /\ pendingSection = w.pendingSection
  /\ discardOpen = w.discardOpen
  /\ isSaving = w.isSaving
  /\ profileLoading = w.profileLoading
  /\ photoUploading = w.photoUploading
  /\ passwordSaving = w.passwordSaving
  /\ profileErrors = w.profileErrors
  /\ availability = w.availability
  /\ availabilityRequestRef = w.availabilityRequestRef
  /\ notificationsLoaded = w.notificationsLoaded
  /\ toast = w.toast
  /\ timerRef = w.timerRef
  /\ timers = w.timers
  /\ formErrors = w.formErrors
  /\ formError = w.formError
  /\ changeEmailOpen = w.changeEmailOpen
  /\ emailErrors = w.emailErrors
  /\ ev = w.ev

\* the mount effects of a page load: those of the page, then the restore effect
Boot ==
  /\ ~booted
  /\ Step([World EXCEPT !.mounted = TRUE])

\* the browser loads the application again at `path`: every component is
\* constructed anew, the calls in flight are dropped, only storage remains
PageLoad(path, tabValue) ==
  /\ booted
  /\ Commit(InitWorld(storage, path, tabValue, isMobile))

----------------------------------------------------------------------------
(* Session calls *)

OkUser(u) == [NoResp EXCEPT !.status = "ok", !.hasUser = u.exists, !.user = u]

Failure(kind) == [NoResp EXCEPT !.status = kind]

\* refreshSession after its await: GET /auth/session/ answered with data.user = u
SessionOk(r, u) ==
  /\ r \in net
  /\ r.kind = "session"
  /\ Step([persistAuth(Remove(World, r), r.token, u) EXCEPT
             !.isRestoring = FALSE,
             !.ev = Event("SessionOk", r, OkUser(u))])

\* refreshSession after its await: the request failed (silent: clearAuth)
SessionFail(r, kind) ==
  /\ r \in net
  /\ r.kind = "session"
  /\ Step([clearAuth(Remove(World, r)) EXCEPT
             !.isRestoring = FALSE,
             !.ev = Event("SessionFail", r, Failure(kind))])

----------------------------------------------------------------------------
(* Form validation rules *)

\* emailPattern.test(s): /^[^\s@]+@[^\s@]+\.[^\s@]+$/
emailPattern(s) ==
  \E i \in 1..Len(s) :
    /\ s[i] = "@"
    /\ i > 1
    /\ \A k \in 1..Len(s) : ~IsSpace(s[k]) /\ (s[k] = "@" => k = i)
    /\ \E j \in (i + 2)..(Len(s) - 1) : s[j] = "."

Includes(s, c) == \E i \in 1..Len(s) : s[i] = c

\* the keys validateLogin(values) sets
validateLogin(values) ==
  LET identifier == trim(values.identifier) IN
  (IF \/ identifier = <<>>
      \/ (Includes(identifier, "@") /\ ~emailPattern(identifier))
      \/ (~Includes(identifier, "@") /\ ~usernamePattern(identifier))
   THEN {"identifier"} ELSE {})
  \cup (IF values.password = <<>> THEN {"password"} ELSE {})

NameMinLen == 2

PasswordMinLen == 8

\* the keys validateSignup(values) sets
validateSignup(values) ==
  LET name == trim(values.name)
      username == trim(values.username)
      email == toLowerCase(trim(values.email))
  IN  (IF name = <<>> \/ Len(name) < NameMinLen THEN {"name"} ELSE {})
      \cup (IF username = <<>> \/ ~usernamePattern(username) THEN {"username"} ELSE {})
      \cup (IF email = <<>> \/ ~emailPattern(email) THEN {"email"} ELSE {})
      \cup (IF values.password = <<>> \/ Len(values.password) < PasswordMinLen
            THEN {"password"} ELSE {})
      \cup (IF values.confirm = <<>> \/ values.password # values.confirm
            THEN {"confirm"} ELSE {})
      \cup (IF ~values.agree THEN {"agree"} ELSE {})

----------------------------------------------------------------------------
(* Login, signup, logout *)

\* navigate(path) from a handler: nothing remounts when the page is already there
NavigateTo(w, path, tabValue) ==
  IF path = w.route /\ path # "/settings" THEN w ELSE Navigate(w, path, tabValue)

\* isSubmitting of the form: its call is pending in the mounted instance
isSubmitting(kind) == \E r \in net : r.kind = kind /\ r.live

AuthReq(kind) == [NoReq EXCEPT !.kind = kind, !.live = TRUE]

\* LoginForm.handleSubmit up to `await login(values)`
LoginSubmit(values) ==
  /\ booted
  /\ route = "/"
  /\ ~isSubmitting("login")
  /\ LET errs == validateLogin(values)
         w == [World EXCEPT !.formErrors = errs, !.formError = FALSE,
                            !.ev = Event("LoginSubmit", NoReq, NoResp)]
     IN  Step(IF errs # {} THEN w ELSE Issue(w, AuthReq("login")))

\* SignupForm.handleSubmit up to `await signup(values)`
SignupSubmit(values) ==
  /\ booted
  /\ route = "/"
  /\ ~isSubmitting("signup")
  /\ LET errs == validateSignup(values)
         w == [World EXCEPT !.formErrors = errs, !.formError = FALSE,
                            !.ev = Event("SignupSubmit", NoReq, NoResp)]
     IN  Step(IF errs # {} THEN w ELSE Issue(w, AuthReq("signup")))

OkAuth(t, u) ==
  [NoResp EXCEPT !.status = "ok", !.token = t, !.hasUser = u.exists, !.user = u]

HttpError(errs) == [NoResp EXCEPT !.status = "http", !.errors = errs]

\* handleLogin / handleSignup after the await: persistAuth, navigate("/profile")
AuthOk(r, t, u) ==
  /\ r \in net
  /\ r.kind \in {"login", "signup"}
  /\ Step([NavigateTo(persistAuth(Remove(World, r), t, u), "/profile", "") EXCEPT
             !.ev = Event("AuthOk", r, OkAuth(t, u))])

\* the form's catch: setErrors(data.errors || {}), setFormError(...)
AuthFail(r, resp) ==
  /\ r \in net
  /\ r.kind \in {"login", "signup"}
  /\ resp.status \in {"http", "network"}
  /\ LET w == [Remove(World, r) EXCEPT !.ev = Event("AuthFail", r, resp)] IN
     Step(IF r.live
          THEN [w EXCEPT !.formErrors = resp.errors, !.formError = TRUE]
          ELSE w)

LogoutReq(t, caller) ==
  [NoReq EXCEPT !.kind = "logout", !.token = t, !.owner = caller, !.live = TRUE]

\* what the caller of logout() does once it has returned
\* (handleLogout: toast, navigate("/"); handleDeleteAccount: the same)
AfterLogout(w, live, caller) ==
  LET gone == NavigateTo(w, "/", "") IN
  IF live /\ gone.route = w.route
  THEN [gone EXCEPT !.toast =
          IF caller = "delete" THEN Toast("Account deleted successfully.", "success")
          ELSE Toast("Logged out", "info")]
  ELSE gone

\* a logout() that clears the session only when its call did not fail
logoutSettledOnSuccess(w, status) ==
  IF status \in {"ok", "none"} THEN clearAuth(w) ELSE w

\* logout() from the end of its try block on: catch logs the failure and
\* returns normally, finally runs clearAuth() whatever `status` the call had
logoutSettled(w, status) == clearAuth(w)

\* logout() up to its await; with no token there is no call and clearAuth runs
\* at once (the finally block)
LogoutStart(caller) ==
  /\ booted
  /\ user.exists
  /\ \/ route = "/profile"
     \/ /\ route = "/settings"
        /\ activeSection = "account"
        /\ ~discardOpen
        /\ (isMobile => ~showMobileList)
  /\ LET w == [World EXCEPT !.ev = Event("LogoutStart", NoReq, NoResp)] IN
     Step(IF token # ""
          THEN Issue(w, LogoutReq(token, caller))
          ELSE [AfterLogout(logoutSettled(w, "none"), TRUE, caller) EXCEPT
                  !.ev = Event("LogoutDone", NoReq, NoResp)])

\* logout() after its await, whatever the answer: catch ignores, finally clears
LogoutDone(r, resp) ==
  /\ r \in net
  /\ r.kind = "logout"
  /\ \E cur \in {logoutSettled(Remove(World, r), resp.status)} :
       Step([AfterLogout(cur, r.live, r.owner) EXCEPT
               !.ev = Event("LogoutDone", r, resp)])

----------------------------------------------------------------------------
(* Moving between pages *)

\* ProfilePage: handleMenuNavigate(section), or the "Account settings" link
OpenSettings(tabValue) ==
  /\ booted
  /\ route = "/profile"
  /\ user.exists
  /\ Step([Navigate(World, "/settings", tabValue) EXCEPT
             !.ev = Event("OpenSettings", NoReq, NoResp)])

\* useMediaQuery: the viewport crosses 959px
Resize ==
  /\ booted
  /\ Step([World EXCEPT !.isMobile = ~@, !.ev = Event("Resize", NoReq, NoResp)])

----------------------------------------------------------------------------
(* SettingsPage: what is on screen *)

\* the page is past its skeleton and the discard dialog, a modal, is closed
SettingsInteractive ==
  booted /\ route = "/settings" /\ user.exists /\ ~discardOpen

\* renderSectionContent() is on screen
SectionVisible == SettingsInteractive /\ (isMobile => ~showMobileList)

\* the section buttons are on screen
NavVisible == SettingsInteractive /\ (isMobile => showMobileList)

\* the Save and Cancel buttons of the active section are enabled
FooterEnabled ==
  /\ SectionVisible
  /\ activeSection \in {"profile", "privacy", "notifications", "appearance"}
  /\ SectionChanged(saved, draft, activeSection)
  /\ ~isSaving
  /\ activeSection = "profile" => ~profileLoading

----------------------------------------------------------------------------
(* SettingsPage: editing *)

\* an input's onChange: setDraft((prev) => ({ ...prev, [field]: value })); the
\* username and profileUrl inputs also reset a status that is not neutral
EditField(field, value) ==
  /\ SectionVisible
  /\ field \in sectionFieldMap(activeSection)
  /\ value # draft[field]
  /\ field = "showLocation" => saved.location # <<>>
  /\ field \in NotificationFields => ~isSaving
  /\ field \in NotificationFields \ {"pauseNotifications"} =>
       draft.pauseNotifications = "off"
  /\ Step([World EXCEPT
             !.draft[field] = value,
             !.availability =
                IF field \in {"username", "profileUrl"}
                THEN [@ EXCEPT ![field] = "neutral"] ELSE @,
             !.ev = Event("EditField", [NoReq EXCEPT !.field = field], NoResp)])

\* handleCancel without setProfileErrors({}) and setAvailability(...)
handleCancelDraftOnly(w) == [w EXCEPT !.draft = w.saved]

\* handleCancel
handleCancel(w) ==
  [w EXCEPT !.draft = w.saved, !.profileErrors = {},
            !.availability = NeutralAvailability]

Cancel ==
  /\ FooterEnabled
  /\ Step([handleCancel(World) EXCEPT !.ev = Event("Cancel", NoReq, NoResp)])

----------------------------------------------------------------------------
(* checkAvailability *)

\* checkAvailability testing the reserved set before the saved value
checkAvailabilityReservedFirst(sv, tok, field, value) ==
  LET trimmed == trim(value)
      normalized == toLowerCase(trimmed)
      savedValue == toLowerCase(trim(sv[field]))
  IN  CASE trimmed = <<>> \/ ~usernamePattern(trimmed) -> "neutral"
        [] normalized \in RESERVED_HANDLES -> "error"
        [] savedValue # <<>> /\ normalized = savedValue -> "success"
        [] tok = "" -> "neutral"
        [] OTHER -> "network"

\* checkAvailability(field, value) up to its await: the status it settles on
\* without a lookup, or "network" when it goes on to the lookup
checkAvailabilityNow(sv, tok, field, value) ==
  LET trimmed == trim(value)
      normalized == toLowerCase(trimmed)
      savedValue == toLowerCase(trim(sv[field]))
  IN  CASE trimmed = <<>> \/ ~usernamePattern(trimmed) -> "neutral"
        [] savedValue # <<>> /\ normalized = savedValue -> "success"
        [] normalized \in RESERVED_HANDLES -> "error"
        [] tok = "" -> "neutral"
        [] OTHER -> "network"

AvailReq(field, value, nextId, owner, tok) ==
  [NoReq EXCEPT !.kind = "avail", !.field = field, !.value = value,
                !.seq = nextId, !.owner = owner, !.token = tok,
                !.live = TRUE, !.latest = TRUE]

\* a later invocation on `field`: the lookups in flight are no longer the latest
Outdate(n, field) ==
  { IF r.kind = "avail" /\ r.field = field /\ r.live
    THEN [r EXCEPT !.latest = FALSE] ELSE r : r \in n }

checkAvailability(w, field, value, owner) ==
  One({ LET now == checkAvailabilityNow(x.saved, x.token, field, value)
            nextId == x.availabilityRequestRef[field] + 1
        IN  CASE now # "network" -> [x EXCEPT !.availability[field] = now]
              [] nextId > MaxSeq -> [x EXCEPT !.overflow = TRUE]
              [] OTHER ->
                   Issue([x EXCEPT !.availabilityRequestRef[field] = nextId],
                         AvailReq(field, trim(value), nextId, owner, x.token))
        : x \in {[w EXCEPT !.net = Outdate(@, field)]} })

\* onBlur of the username or profileUrl input
BlurField(field) ==
  /\ SectionVisible
  /\ activeSection = "profile"
  /\ field \in {"username", "profileUrl"}
  /\ Step([checkAvailability(World, field, draft[field], "blur") EXCEPT
             !.ev = Event("BlurField", [NoReq EXCEPT !.field = field], NoResp)])

----------------------------------------------------------------------------
(* handleSave *)

DisplayNameMinLen == 2

BioMaxLen == 160

StatusMaxLen == 80

MaxInterests == 5

\* the keys validateProfile() sets
validateProfile(dr) ==
  (IF trim(dr.displayName) = <<>> \/ Len(trim(dr.displayName)) < DisplayNameMinLen
   THEN {"displayName"} ELSE {})
  \cup (IF trim(dr.username) = <<>> \/ ~usernamePattern(trim(dr.username))
        THEN {"username"} ELSE {})
  \cup (IF trim(dr.profileUrl) = <<>> \/ ~usernamePattern(trim(dr.profileUrl))
        THEN {"profileUrl"} ELSE {})
  \cup (IF Len(dr.bio) > BioMaxLen THEN {"bio"} ELSE {})
  \cup (IF Len(dr.status) > StatusMaxLen THEN {"status"} ELSE {})
  \cup (IF Len(dr.interests) > MaxInterests THEN {"interests"} ELSE {})

\* handleSave (profile) suspended in `await validateAvailability()`
SaveWait(dr, sv, tok, u, p) ==
  [NoReq EXCEPT !.kind = "saveWait", !.section = "profile", !.cdraft = dr,
                !.csaved = sv, !.token = tok, !.live = TRUE,
                !.uStatus = IF u = "network" THEN "pending" ELSE u,
                !.pStatus = IF p = "network" THEN "pending" ELSE p,
                !.uAnswer = IF u = "network" THEN "pending" ELSE u,
                !.pAnswer = IF p = "network" THEN "pending" ELSE p]

\* the PATCH (or the notifications PATCH) of a section, with the closure of the
\* handleSave that sends it
SaveReq(section, dr, sv, tok) ==
  [NoReq EXCEPT !.kind = "save", !.section = section, !.cdraft = dr,
                !.csaved = sv, !.token = tok, !.live = TRUE]

SessionExpired == Toast("Session expired. Please log in again.", "warning")

\* handleSave (profile) from the return of validateAvailability() to the PATCH
SaveProceed(w, sw) ==
  One({ CASE sw.uStatus = "error" \/ sw.pStatus = "error" ->
               IF sw.live THEN [x EXCEPT !.isSaving = FALSE] ELSE x
          [] sw.token = "" ->
               IF sw.live
               THEN [x EXCEPT !.isSaving = FALSE, !.toast = SessionExpired]
               ELSE x
          [] OTHER ->
               Issue(x, [SaveReq("profile", sw.cdraft, sw.csaved, sw.token) EXCEPT
                           !.live = sw.live,
                           !.uAnswer = sw.uAnswer, !.pAnswer = sw.pAnswer])
        : x \in {w} })

\* handleSave when the profile section is active
handleSaveProfile(w) ==
  LET errs == validateProfile(w.draft)
      u == checkAvailabilityNow(w.saved, w.token, "username", w.draft.username)
      p == checkAvailabilityNow(w.saved, w.token, "profileUrl", w.draft.profileUrl)
      sw == SaveWait(w.draft, w.saved, w.token, u, p)
  IN  IF errs # {}
      THEN [w EXCEPT !.profileErrors = errs]
      ELSE One({ IF u # "network" /\ p # "network"
                 THEN SaveProceed(x, sw)
                 ELSE Issue(x, sw)
                 : x \in { checkAvailability(
                             checkAvailability(
                               [w EXCEPT !.profileErrors = {}, !.isSaving = TRUE],
                               "username", w.draft.username, "save"),
                             "profileUrl", w.draft.profileUrl, "save") } })

\* handleSave when the privacy, notifications or appearance section is active
handleSaveOther(w) ==
  IF w.token = ""
  THEN [w EXCEPT !.toast = SessionExpired]
  ELSE Issue([w EXCEPT !.isSaving = TRUE],
             SaveReq(w.activeSection, w.draft, w.saved, w.token))

\* handleSave without its first check
handleSaveUnguarded(w) ==
  IF w.activeSection = "profile" THEN handleSaveProfile(w) ELSE handleSaveOther(w)

handleSave(w) ==
  CASE ~hasSectionChanges(w, w.activeSection) -> w
    [] w.activeSection = "profile" -> handleSaveProfile(w)
    [] OTHER -> handleSaveOther(w)

\* the Save button; one profile save at a time waits for its lookups
Save ==
  /\ FooterEnabled
  /\ ~\E q \in net : q.kind = "saveWait"
  /\ \E cur \in {World} :
       Step([handleSave(cur) EXCEPT !.ev = Event("Save", NoReq, NoResp)])

Available(b) == [NoResp EXCEPT !.status = "ok", !.available = b]

\* what the lookup found out, whether or not its answer is still wanted
AnswerOf(resp) ==
  IF resp.status = "ok"
  THEN (IF resp.available THEN "success" ELSE "error")
  ELSE "neutral"

\* availabilityRequestRef.current[field] === nextId in the continuation of r
IsCurrent(w, r) ==
  IF r.live THEN w.availabilityRequestRef[r.field] = r.seq ELSE r.isActive

\* validateAvailability(): one of the two lookups of the waiting save returned
SaveResume(w, field, result, answer) ==
  One({ LET waits == { q \in x.net : q.kind = "saveWait" }
            sw == CHOOSE q \in waits : TRUE
            sw2 == IF field = "username"
                   THEN [sw EXCEPT !.uStatus = result, !.uAnswer = answer]
                   ELSE [sw EXCEPT !.pStatus = result, !.pAnswer = answer]
        IN  CASE waits = {} -> x
              [] sw2.uStatus # "pending" /\ sw2.pStatus # "pending" ->
                   SaveProceed(Remove(x, sw), sw2)
              [] OTHER -> [x EXCEPT !.net = (@ \ {sw}) \cup {sw2}]
        : x \in {w} })

\* checkAvailability after its await
availabilitySettled(w, r, resp) ==
  LET result == IF IsCurrent(w, r) THEN AnswerOf(resp) ELSE "neutral"
      shown == IF IsCurrent(w, r) /\ r.live
               THEN [w EXCEPT !.availability[r.field] = result] ELSE w
  IN  IF r.owner = "save"
      THEN SaveResume(shown, r.field, result, AnswerOf(resp))
      ELSE shown

AvailabilityDone(r, resp) ==
  /\ r \in net
  /\ r.kind = "avail"
  /\ \E cur \in {Remove(World, r)} :
       Step([availabilitySettled(cur, r, resp) EXCEPT
               !.ev = Event("AvailabilityDone", r, resp)])

----------------------------------------------------------------------------
(* handleSave after the PATCH *)

\* { ...prev, ...fields }
Merge(prev, fields) ==
  [f \in DOMAIN prev |-> IF f \in DOMAIN fields THEN fields[f] ELSE prev[f]]

OkProfile(p) == [NoResp EXCEPT !.status = "ok", !.hasProfile = TRUE, !.profile = p]

WithUser(resp, u) == [resp EXCEPT !.hasUser = TRUE, !.user = u]

OkBare == [NoResp EXCEPT !.status = "ok"]

OkPrefs(p) == [NoResp EXCEPT !.status = "ok", !.hasPrefs = TRUE, !.prefs = p]

RequestFailed == Toast("Request failed", "error")

\* nextFields of the profile save
ProfileSaveFields(profile, sv) ==
  [ displayName |-> profile.display_name,
    username    |-> profile.username,
    profileUrl  |-> profile.profile_url,
    status      |-> profile.status,
    bio         |-> profile.bio,
    location    |-> profile.location,
    interests   |-> profile.interests,
    photoUrl    |-> profile.photo_url,
    visibility  |-> OrEnum(profile.visibility, OrEnum(sv.visibility, "public")),
    theme       |-> OrEnum(profile.theme, OrEnum(sv.theme, "system")),
    showLocation |-> /\ BoolOf(profile.show_location)
                     /\ (profile.location # <<>> \/ sv.location # <<>>),
    allowSearch  |-> IF profile.allow_search = "absent"
                     THEN sv.allowSearch ELSE BoolOf(profile.allow_search) ]

\* nextFields of the privacy save
PrivacySaveFields(profile, sv) ==
  [ visibility  |-> OrEnum(profile.visibility, "public"),
    showLocation |-> /\ BoolOf(profile.show_location)
                     /\ (profile.location # <<>> \/ sv.location # <<>>),
    allowSearch  |-> BoolOf(profile.allow_search) ]

\* nextFields of the appearance save
AppearanceSaveFields(profile, dr) ==
  [ theme |-> OrEnum(profile.theme, OrEnum(dr.theme, "system")) ]

\* a ?? b on an optional boolean and a boolean
OrBool(a, b) == IF a = "absent" THEN b ELSE BoolOf(a)

NotificationPrefFields(prefs, prev) ==
  [ emailNotifications |-> OrBool(prefs.email_notifications, prev.emailNotifications),
    productUpdates     |-> OrBool(prefs.product_updates, prev.productUpdates),
    newFollowerAlerts  |-> OrBool(prefs.new_follower_alerts, prev.newFollowerAlerts),
    weeklyDigest       |-> OrBool(prefs.weekly_digest, prev.weeklyDigest),
    pauseNotifications |-> OrEnum(prefs.pause_notifications, prev.pauseNotifications) ]

applyNotificationPrefs(w, prefs) ==
  [w EXCEPT !.saved = Merge(@, NotificationPrefFields(prefs, @)),
            !.draft = Merge(@, NotificationPrefFields(prefs, @))]

\* the catch block storing the server's keys as they came
MappedErrorsUnmapped(errs) ==
  errs \cap {"display_name", "username", "profile_url", "status", "bio",
             "location", "interests"}

\* the error keys the profile save maps from error.data.errors
MappedErrors(errs) ==
  { IF k = "display_name" THEN "displayName"
    ELSE IF k = "profile_url" THEN "profileUrl" ELSE k :
    k \in errs \cap {"display_name", "username", "profile_url", "status", "bio",
                     "location", "interests"} }

\* the try block of a save, on the page that sent it
saveApplied(w, r, resp) ==
  CASE r.section = "profile" ->
         [w EXCEPT
            !.saved = IF resp.hasProfile
                      THEN Merge(@, ProfileSaveFields(resp.profile, r.csaved)) ELSE @,
            !.draft = IF resp.hasProfile
                      THEN Merge(@, ProfileSaveFields(resp.profile, r.csaved)) ELSE @,
            !.profileErrors = {},
            !.availability = NeutralAvailability,
            !.toast = Toast("Profile updated successfully.", "success")]
    [] r.section = "privacy" ->
         [w EXCEPT
            !.saved = IF resp.hasProfile
                      THEN Merge(@, PrivacySaveFields(resp.profile, r.csaved))
                      ELSE [@ EXCEPT !.visibility = r.cdraft.visibility,
                                     !.showLocation = r.cdraft.showLocation,
                                     !.allowSearch = r.cdraft.allowSearch],
            !.draft = IF resp.hasProfile
                      THEN Merge(@, PrivacySaveFields(resp.profile, r.csaved)) ELSE @,
            !.toast = Toast("Privacy settings updated.", "success")]
    [] r.section = "appearance" ->
         [w EXCEPT
            !.saved = IF resp.hasProfile
                      THEN Merge(@, AppearanceSaveFields(resp.profile, r.cdraft))
                      ELSE [@ EXCEPT !.theme = r.cdraft.theme],
            !.draft = IF resp.hasProfile
                      THEN Merge(@, AppearanceSaveFields(resp.profile, r.cdraft)) ELSE @,
            !.toast = Toast("Appearance updated.", "success")]
    [] OTHER ->
         [applyNotificationPrefs(w, IF resp.hasPrefs THEN resp.prefs ELSE NoPrefs)
            EXCEPT !.toast = Toast("Notification preferences updated.", "success")]

\* the catch block of a save, on the page that sent it
saveFailed(w, r, resp) ==
  [w EXCEPT
     !.profileErrors = IF r.section = "profile" /\ MappedErrors(resp.errors) # {}
                       THEN MappedErrors(resp.errors) ELSE @,
     !.toast = RequestFailed]

\* handleSave after the await of its PATCH: try, catch, finally
saveSettled(w, r, resp) ==
  One({ LET local == CASE ~r.live -> x
                       [] resp.status = "ok" ->
                            [saveApplied(x, r, resp) EXCEPT !.isSaving = FALSE]
                       [] OTHER -> [saveFailed(x, r, resp) EXCEPT !.isSaving = FALSE]
        IN  IF resp.status = "ok" /\ resp.hasUser /\ r.section # "notifications"
            THEN setUser(local, resp.user) ELSE local
        : x \in {w} })

SaveDone(r, resp) ==
  /\ r \in net
  /\ r.kind = "save"
  /\ resp.status \in {"ok", "http", "network"}
  /\ \E cur \in {Remove(World, r)} :
       Step([saveSettled(cur, r, resp) EXCEPT !.ev = Event("SaveDone", r, resp)])

----------------------------------------------------------------------------
(* The GET calls of the settings effects, after their await *)

\* nextFields of loadProfile
LoadedFields(profile) ==
  [ displayName |-> profile.display_name,
    username    |-> profile.username,
    profileUrl  |-> profile.profile_url,
    status      |-> profile.status,
    bio         |-> profile.bio,
    location    |-> profile.location,
    interests   |-> profile.interests,
    photoUrl    |-> profile.photo_url,
    visibility  |-> OrEnum(profile.visibility, "public"),
    theme       |-> OrEnum(profile.theme, "system"),
    showLocation |-> BoolOf(profile.show_location) /\ profile.location # <<>>,
    allowSearch  |-> BoolOf(profile.allow_search) ]

\* loadProfile applying whatever profile comes back
ReloadAppliesAlways(w, r, resp) == resp.status = "ok" /\ resp.hasProfile

\* whether loadProfile gets past its two returns and applies the answer
ReloadApplies(w, r, resp) ==
  /\ resp.status = "ok"
  /\ resp.hasProfile
  /\ r.isActive
  /\ ~(hasProfileChanges(w) \/ hasPrivacyChanges(w))

\* loadProfile after its await
profileSettled(w, r, resp) ==
  One({ LET applied ==
              IF ReloadApplies(x, r, resp)
              THEN [x EXCEPT !.saved = Merge(@, LoadedFields(resp.profile)),
                             !.draft = Merge(@, LoadedFields(resp.profile)),
                             !.availability = NeutralAvailability]
              ELSE x
            withUser ==
              IF ReloadApplies(x, r, resp) /\ resp.hasUser
              THEN setUser(applied, resp.user) ELSE applied
        IN  IF r.isActive
            THEN [withUser EXCEPT
                    !.profileLoading = FALSE,
                    !.toast = IF resp.status # "ok" THEN RequestFailed ELSE @]
            ELSE withUser
        : x \in {w} })

ProfileLoaded(r, resp) ==
  /\ r \in net
  /\ r.kind = "getProfile"
  /\ resp.status \in {"ok", "http", "network"}
  /\ \E cur \in {Remove(World, r)} :
       Step([profileSettled(cur, r, resp) EXCEPT
               !.ev = Event("ProfileLoaded", r, resp)])

\* loadNotifications after its await
notificationsSettled(w, r, resp) ==
  CASE ~r.isActive -> w
    [] resp.status = "ok" ->
         [applyNotificationPrefs(w, IF resp.hasPrefs THEN resp.prefs ELSE NoPrefs)
            EXCEPT !.notificationsLoaded = TRUE]
    [] OTHER -> [w EXCEPT !.notificationsLoaded = TRUE, !.toast = RequestFailed]

NotificationsLoaded(r, resp) ==
  /\ r \in net
  /\ r.kind = "getNotifications"
  /\ resp.status \in {"ok", "http", "network"}
  /\ \E cur \in {Remove(World, r)} :
       Step([notificationsSettled(cur, r, resp) EXCEPT
               !.ev = Event("NotificationsLoaded", r, resp)])

----------------------------------------------------------------------------
(* SettingsPage: moving between sections and leaving *)

applySection(w, sectionId) ==
  IF sectionId \notin settingsSectionIds
  THEN w
  ELSE [w EXCEPT !.activeSection = sectionId, !.tab = sectionId,
                 !.showMobileList = IF w.isMobile THEN FALSE ELSE @]

\* handleSectionChange without the dirty check
handleSectionChangeUnguarded(w, sectionId) == applySection(w, sectionId)

handleSectionChange(w, sectionId) ==
  CASE sectionId = w.activeSection ->
         [w EXCEPT !.showMobileList = IF w.isMobile THEN FALSE ELSE @]
    [] hasSectionChanges(w, w.activeSection) ->
         [w EXCEPT !.pendingSection = sectionId, !.discardOpen = TRUE]
    [] OTHER -> applySection(w, sectionId)

SectionChange(sectionId) ==
  /\ NavVisible
  /\ \E cur \in {World} :
       Step([handleSectionChange(cur, sectionId) EXCEPT
               !.ev = Event("SectionChange", [NoReq EXCEPT !.section = sectionId],
                            NoResp)])

handleBackToList(w) ==
  IF hasSectionChanges(w, w.activeSection)
  THEN [w EXCEPT !.pendingSection = "list", !.discardOpen = TRUE]
  ELSE [w EXCEPT !.pendingSection = "", !.showMobileList = TRUE, !.tab = ""]

BackToList ==
  /\ SettingsInteractive
  /\ isMobile
  /\ ~showMobileList
  /\ \E cur \in {World} :
       Step([handleBackToList(cur) EXCEPT
               !.ev = Event("BackToList", [NoReq EXCEPT !.section = "list"], NoResp)])

\* onClick of the "Back to profile" button
handleBackToProfile(w) ==
  IF hasSectionChanges(w, w.activeSection)
  THEN [w EXCEPT !.pendingSection = "back", !.discardOpen = TRUE]
  ELSE Navigate(w, "/profile", "")

BackToProfile ==
  /\ SettingsInteractive
  /\ \E cur \in {World} :
       Step([handleBackToProfile(cur) EXCEPT
               !.ev = Event("BackToProfile", [NoReq EXCEPT !.section = "back"],
                            NoResp)])

\* onConfirm without setDraft(saved)
handleDiscardConfirmKeepingDraft(w) ==
  One({ CASE w.pendingSection = "back" -> Navigate(x, "/profile", "")
          [] w.pendingSection = "list" ->
               [x EXCEPT !.showMobileList = TRUE, !.tab = "", !.pendingSection = ""]
          [] OTHER -> [applySection(x, w.pendingSection) EXCEPT !.pendingSection = ""]
        : x \in {[w EXCEPT !.discardOpen = FALSE]} })

\* onConfirm of the discard dialog
handleDiscardConfirm(w) ==
  One({ CASE w.pendingSection = "back" -> Navigate(x, "/profile", "")
          [] w.pendingSection = "list" ->
               [x EXCEPT !.showMobileList = TRUE, !.tab = "", !.pendingSection = ""]
          [] OTHER -> [applySection(x, w.pendingSection) EXCEPT !.pendingSection = ""]
        : x \in {[handleCancel(w) EXCEPT !.discardOpen = FALSE]} })

DiscardConfirm ==
  /\ booted
  /\ route = "/settings"
  /\ discardOpen
  /\ \E cur \in {World} :
       Step([handleDiscardConfirm(cur) EXCEPT
               !.ev = Event("DiscardConfirm",
                            [NoReq EXCEPT !.section = pendingSection], NoResp)])

\* handleDiscardCancel without setPendingSection(null)
handleDiscardCancelKeepingTarget(w) == [w EXCEPT !.discardOpen = FALSE]

handleDiscardCancel(w) == [w EXCEPT !.discardOpen = FALSE, !.pendingSection = ""]

DiscardCancel ==
  /\ booted
  /\ route = "/settings"
  /\ discardOpen
  /\ Step([handleDiscardCancel(World) EXCEPT
             !.ev = Event("DiscardCancel", NoReq, NoResp)])

----------------------------------------------------------------------------
(* Account section: password change, account deletion *)

\* passwordPattern.test(s): /^.{8,}$/
passwordPattern(s) == Len(s) >= PasswordMinLen

\* the keys handlePasswordSave sets before it calls the server
validatePassword(values) ==
  (IF values.current = <<>> THEN {"current"} ELSE {})
  \cup (IF values.next = <<>> \/ ~passwordPattern(values.next) THEN {"next"} ELSE {})
  \cup (IF values.confirm = <<>> \/ values.confirm # values.next
        THEN {"confirm"} ELSE {})

PasswordReq(tok) == [NoReq EXCEPT !.kind = "password", !.token = tok, !.live = TRUE]

\* handlePasswordSave storing the errors and going on to the call
handlePasswordSaveUnvalidated(w, values) ==
  IF w.token = ""
  THEN [w EXCEPT !.formErrors = validatePassword(values), !.toast = SessionExpired]
  ELSE Issue([w EXCEPT !.formErrors = validatePassword(values), !.passwordSaving = TRUE],
             PasswordReq(w.token))

\* handlePasswordSave up to its await
handlePasswordSave(w, values) ==
  CASE validatePassword(values) # {} -> [w EXCEPT !.formErrors = validatePassword(values)]
    [] w.token = "" -> [w EXCEPT !.formErrors = {}, !.toast = SessionExpired]
    [] OTHER -> Issue([w EXCEPT !.formErrors = {}, !.passwordSaving = TRUE],
                      PasswordReq(w.token))

PasswordSave(values) ==
  /\ SectionVisible
  /\ activeSection = "account"
  /\ ~passwordSaving
  /\ \E cur \in {World} :
       Step([handlePasswordSave(cur, values) EXCEPT
               !.ev = Event("PasswordSave", NoReq, NoResp)])

\* handlePasswordSave after its await: persistAuth(data.token, data.user)
PasswordOk(r, t, u) ==
  /\ r \in net
  /\ r.kind = "password"
  /\ \E cur \in {persistAuth(Remove(World, r), t, u)} :
       Step([(IF r.live
              THEN [cur EXCEPT !.formErrors = {}, !.passwordSaving = FALSE,
                               !.toast = Toast("Password updated successfully.",
                                               "success")]
              ELSE cur)
             EXCEPT !.ev = Event("PasswordOk", r, OkAuth(t, u))])

\* the keys handlePasswordSave maps from error.data.errors
MappedPasswordErrors(errs) ==
  { IF k \in {"new", "password"} THEN "next" ELSE k :
    k \in errs \cap {"current", "new", "next", "password", "confirm"} }

PasswordFail(r, resp) ==
  /\ r \in net
  /\ r.kind = "password"
  /\ resp.status \in {"http", "network"}
  /\ \E cur \in {Remove(World, r)} :
       Step([(IF r.live
              THEN [cur EXCEPT !.formErrors = MappedPasswordErrors(resp.errors),
                               !.passwordSaving = FALSE, !.toast = RequestFailed]
              ELSE cur)
             EXCEPT !.ev = Event("PasswordFail", r, resp)])

TxtDELETE == <<"D","E","L","E","T","E">>

DeleteReq(tok) == [NoReq EXCEPT !.kind = "delete", !.token = tok, !.live = TRUE]

\* handleDeleteAccount up to its first await
handleDeleteAccount(w, deleteValue) ==
  CASE deleteValue # TxtDELETE -> [w EXCEPT !.formError = TRUE]
    [] w.token = "" -> NavigateTo(w, "/", "")
    [] OTHER -> Issue(w, DeleteReq(w.token))

DeleteAccount(deleteValue) ==
  /\ SectionVisible
  /\ activeSection = "account"
  /\ \E cur \in {World} :
       Step([handleDeleteAccount(cur, deleteValue) EXCEPT
               !.ev = Event("DeleteAccount", NoReq, NoResp)])

\* handleDeleteAccount after POST /auth/delete/ succeeded: await logout()
DeleteOk(r) ==
  /\ r \in net
  /\ r.kind = "delete"
  /\ Step([Issue(Remove(World, r), [LogoutReq(r.token, "delete") EXCEPT !.live = r.live])
             EXCEPT !.ev = Event("DeleteOk", r, OkBare)])

DeleteFail(r, resp) ==
  /\ r \in net
  /\ r.kind = "delete"
  /\ resp.status \in {"http", "network"}
  /\ \E cur \in {Remove(World, r)} :
       Step([(IF r.live THEN [cur EXCEPT !.formError = TRUE] ELSE cur)
             EXCEPT !.ev = Event("DeleteFail", r, resp)])

----------------------------------------------------------------------------
(* ProfilePage: the status editor *)

StatusReq(tok, u, nextStatus) ==
  [NoReq EXCEPT !.kind = "status", !.token = tok, !.cuser = u,
                !.value = nextStatus, !.live = TRUE]

\* statusDraft.trim().slice(0, statusLimit)
NextStatus(statusDraft) ==
  LET t == trim(statusDraft) IN
  IF Len(t) > StatusMaxLen THEN SubSeq(t, 1, StatusMaxLen) ELSE t

\* handleStatusSave up to its await
handleStatusSave(w, statusDraft) ==
  IF ~w.user.exists \/ w.token = ""
  THEN [w EXCEPT !.toast = SessionExpired]
  ELSE Issue(w, StatusReq(w.token, w.user, NextStatus(statusDraft)))

\* the status editor is shown to the owner: isOwner = Boolean(user)
StatusSave(statusDraft) ==
  /\ booted
  /\ route = "/profile"
  /\ user.exists
  /\ \E cur \in {World} :
       Step([handleStatusSave(cur, statusDraft) EXCEPT
               !.ev = Event("StatusSave", NoReq, NoResp)])

\* handleStatusSave after its await
statusSettled(w, r, resp) ==
  One({ CASE resp.status # "ok" -> IF r.live THEN [x EXCEPT !.toast = RequestFailed] ELSE x
          [] OTHER ->
               LET local == IF r.live
                            THEN [x EXCEPT !.toast =
                                    Toast("Profile updated successfully.", "success")]
                            ELSE x
               IN  setUser(local, IF resp.hasUser THEN resp.user
                                  ELSE [r.cuser EXCEPT !.status = r.value])
        : x \in {w} })

StatusDone(r, resp) ==
  /\ r \in net
  /\ r.kind = "status"
  /\ resp.status \in {"ok", "http", "network"}
  /\ \E cur \in {Remove(World, r)} :
       Step([statusSettled(cur, r, resp) EXCEPT !.ev = Event("StatusDone", r, resp)])

----------------------------------------------------------------------------
(* Inputs of the session specifications *)

\* the user does not repeat a gesture whose call is still in flight
Once(kind) == \A r \in net : r.kind # kind

LoginInputs ==
  { [identifier |-> Txt_mika, password |-> Txt_mika],
    [identifier |-> <<"m","@","x">>, password |-> Txt_mika] }

TxtSecret12 == <<"s","e","c","r","e","t","1","2">>

TxtEmail == <<"m","@","x",".","p","h">>

SignupInputs ==
  { [name |-> TxtMika, username |-> Txt_mika, email |-> TxtEmail,
     password |-> TxtSecret12, confirm |-> TxtSecret12, agree |-> TRUE],
    [name |-> TxtMika, username |-> Txt_mika, email |-> TxtEmail,
     password |-> TxtSecret12, confirm |-> Txt_mika, agree |-> TRUE] }

PasswordInputs ==
  { [current |-> Txt_mika, next |-> TxtSecret12, confirm |-> TxtSecret12],
    [current |-> Txt_mika, next |-> Txt_mika, confirm |-> Txt_mika] }

----------------------------------------------------------------------------
(* Logout specification: restoration, login, logout from the profile page  *)
(* and from the account section, account deletion                          *)

InitLogout ==
  \E st \in {NoRecord, StoredRecord("t1", UserMika)}, path \in {"/", "/profile"} :
    InitFrom(InitWorld(st, path, "", FALSE))

NextLogout ==
  \/ Boot
  \/ \E r \in net : SessionOk(r, UserMika)
  \/ \E r \in net : SessionFail(r, "http")
  \/ \E v \in LoginInputs : net = {} /\ LoginSubmit(v)
  \/ \E r \in net, t \in {"", "t1"} : AuthOk(r, t, UserMika)
  \/ \E r \in net : AuthFail(r, HttpError({"identifier"}))
  \/ Once("logout") /\ LogoutStart("page")
  \/ \E r \in net, k \in {"ok", "http", "network"} : LogoutDone(r, Failure(k))
  \/ OpenSettings("account")
  \/ \E v \in {TxtDELETE, <<>>} : Once("delete") /\ Once("logout") /\ DeleteAccount(v)
  \/ \E r \in net : DeleteOk(r)
  \/ \E r \in net : DeleteFail(r, Failure("network"))

SpecLogout == InitLogout /\ [][NextLogout]_vars

\* C7: when logout() has run to its end, whether POST /auth/logout/ succeeded,
\* failed with an HTTP error or failed at the network level, the token is
\* empty, the user is null and the durable record is removed; the caller goes
\* on to navigate("/"); and a logout call is only ever sent with a token.
C7_LogoutAlwaysClears ==
  /\ ev.op = "LogoutDone" =>
       token = "" /\ ~user.exists /\ storage = NoRecord /\ route = "/"
  /\ \A r \in net : r.kind = "logout" => r.token # ""

\* a logout whose call failed at the network level has ended
C7_FailedLogoutEnded ==
  /\ ev.op = "LogoutDone"
  /\ ev.req.kind = "logout"
  /\ ev.resp.status = "network"
  /\ token = ""
  /\ storage = NoRecord

----------------------------------------------------------------------------
(* Session specification: restoration at page load, login, signup, logout  *)
(* and password change                                                      *)

InitSession ==
  \E st \in {NoRecord, Garbage, StoredRecord("t1", UserMika)},
     path \in {"/", "/profile"} :
    InitFrom(InitWorld(st, path, "", FALSE))

NextSession ==
  \/ Boot
  \/ \E r \in net : SessionOk(r, UserMika)
  \/ \E r \in net : SessionFail(r, "http")
  \/ \E v \in LoginInputs : net = {} /\ LoginSubmit(v)
  \/ \E v \in SignupInputs : net = {} /\ SignupSubmit(v)
  \/ \E r \in net : AuthOk(r, "t1", UserMika)
  \/ \E r \in net : AuthFail(r, HttpError({"identifier"}))
  \/ Once("logout") /\ LogoutStart("page")
  \/ \E r \in net : LogoutDone(r, Failure("ok"))
  \/ OpenSettings("account")
  \/ \E v \in PasswordInputs : net = {} /\ PasswordSave(v)
  \/ \E r \in net : PasswordOk(r, "t2", UserMika)
  \/ \E r \in net : PasswordFail(r, HttpError({"current"}))

SpecSession == InitSession /\ [][NextSession]_vars

\* C9: a session that is established (token and user set) is ended (token
\* emptied or user set to null) only by logout(); the one other step that may
\* end it is the failure of the silent revalidation of a page load, and only
\* while that restoration is still in progress.  In particular no failed
\* request ends the session that a login, a signup or a password change has
\* established.
C9_OnlyLogoutEndsSession ==
  [][ (token # "" /\ user.exists /\ (token' = "" \/ ~user'.exists))
        => \/ ev'.op = "LogoutDone"
           \/ ev'.op = "SessionFail" /\ ev'.req.restoring /\ isRestoring ]_vars

----------------------------------------------------------------------------
(* Restoration specification: a page load with a stored session on the     *)
(* profile page or the settings page, while the revalidation is in flight  *)

InitRestore ==
  \E st \in {NoRecord, StoredRecord("t1", UserMika)},
     path \in {"/profile", "/settings"} :
    InitFrom(InitWorld(st, path, IF path = "/settings" THEN "profile" ELSE "", FALSE))

NextRestore ==
  \/ Boot
  \/ \E r \in net : SessionOk(r, UserMika)
  \/ \E r \in net : SessionFail(r, "http")
  \/ \E r \in net : ProfileLoaded(r, Failure("http"))
  \/ Once("status") /\ StatusSave(TxtHello)
  \/ \E r \in net : StatusDone(r, OkBare)
  \/ \E t \in {"profile", "account"} : OpenSettings(t)
  \/ BackToProfile

SpecRestore == InitRestore /\ [][NextRestore]_vars

\* C10: a call that is made in a render in which isRestoring is true and that
\* carries the token is the session revalidation itself: no profile load, no
\* status save, no settings mutation.
C10_TokenUnusedWhileRestoring ==
  \A r \in net : (r.restoring /\ r.token # "") => r.kind = "session"

----------------------------------------------------------------------------
(* What the server answers *)

\* the profile the server holds for the user u
ProfileOf(u) ==
  [ display_name |-> u.name, username |-> u.username,
    profile_url |-> u.profile_url, status |-> u.status, bio |-> u.bio,
    location |-> u.location, interests |-> u.interests,
    photo_url |-> u.photo_url, visibility |-> u.visibility, theme |-> u.theme,
    show_location |-> u.show_location, allow_search |-> u.allow_search ]

\* the user the server returns next to the profile p
UserOf(p) ==
  [ exists |-> TRUE, name |-> p.display_name, username |-> p.username,
    profile_url |-> p.profile_url, status |-> p.status, bio |-> p.bio,
    location |-> p.location, interests |-> p.interests,
    photo_url |-> p.photo_url, visibility |-> p.visibility, theme |-> p.theme,
    show_location |-> p.show_location, allow_search |-> p.allow_search ]

\* the profile the server holds once it has applied the body of the PATCH r
\* as it stands: the payload handleSave builds, over the values last saved
Applied(r) ==
  LET old == [ display_name |-> r.csaved.displayName,
               username |-> r.csaved.username,
               profile_url |-> r.csaved.profileUrl,
               status |-> r.csaved.status, bio |-> r.csaved.bio,
               location |-> r.csaved.location, interests |-> r.csaved.interests,
               photo_url |-> r.csaved.photoUrl,
               visibility |-> r.csaved.visibility, theme |-> r.csaved.theme,
               show_location |-> OptOf(r.csaved.showLocation),
               allow_search |-> OptOf(r.csaved.allowSearch) ]
  IN  CASE r.section = "profile" ->
             [old EXCEPT !.display_name = trim(r.cdraft.displayName),
                         !.username = trim(r.cdraft.username),
                         !.profile_url = trim(r.cdraft.profileUrl),
                         !.status = trim(r.cdraft.status),
                         !.bio = trim(r.cdraft.bio),
                         !.location = trim(r.cdraft.location),
                         !.interests = r.cdraft.interests,
                         !.theme = r.cdraft.theme]
        [] r.section = "privacy" ->
             [old EXCEPT !.visibility = r.cdraft.visibility,
                         !.show_location = OptOf(r.cdraft.showLocation),
                         !.allow_search = OptOf(r.cdraft.allowSearch)]
        [] r.section = "appearance" -> [old EXCEPT !.theme = r.cdraft.theme]
        [] OTHER -> old

\* the preferences the server holds once it has applied the body of the PATCH r
AppliedPrefs(r) ==
  [ email_notifications |-> OptOf(r.cdraft.emailNotifications),
    product_updates |-> OptOf(r.cdraft.productUpdates),
    new_follower_alerts |-> OptOf(r.cdraft.newFollowerAlerts),
    weekly_digest |-> OptOf(r.cdraft.weeklyDigest),
    pause_notifications |-> r.cdraft.pauseNotifications ]

----------------------------------------------------------------------------
(* Availability specification: the profile section with its username and   *)
(* profileUrl lookups and the profile save                                  *)

TxtAlice == <<"a","l","i","c","e">>

TxtAl == <<"a","l">>

UsernameInputs == {TxtAlice, TxtAl}

\* the page has finished loading: nothing of its start is still in flight
Loaded == \A r \in net : r.kind \notin {"session", "getProfile"}

InitAvail ==
  InitFrom(InitWorld(StoredRecord("t1", UserMika), "/settings", "profile", FALSE))

NextAvail ==
  \/ Boot
  \/ \E r \in net : SessionOk(r, UserMika)
  \/ \E r \in net : ProfileLoaded(r, OkProfile(ProfileOf(UserMika)))
  \/ \E v \in UsernameInputs : Loaded /\ EditField("username", v)
  \/ Loaded /\ BlurField("username")
  \/ Loaded /\ Once("save") /\ Save
  \/ \E r \in net, resp \in {Available(TRUE), Available(FALSE)} :
       AvailabilityDone(r, resp)
  \/ \E r \in net : SaveDone(r, OkProfile(Applied(r)))
  \/ \E r \in net : SaveDone(r, HttpError({"username"}))

SpecAvail == InitAvail /\ [][NextAvail]_vars

\* C1: for either field, the status shown is that of the last invocation of
\* checkAvailability: an invocation that settles without a lookup sets the
\* status at once, the answer to the latest lookup sets the status to what the
\* lookup found, and the answer to a lookup that a later invocation (with or
\* without a lookup of its own) has followed leaves the status as it is.
C1_LastInvocationWins ==
  [][ /\ (ev'.op = "AvailabilityDone" /\ ev'.req.live) =>
           availability'[ev'.req.field] =
             IF ev'.req.latest THEN AnswerOf(ev'.resp)
             ELSE availability[ev'.req.field]
      /\ (/\ ev'.op = "BlurField"
          /\ checkAvailabilityNow(saved, token, ev'.req.field,
                                  draft[ev'.req.field]) # "network") =>
           availability'[ev'.req.field] =
             checkAvailabilityNow(saved, token, ev'.req.field, draft[ev'.req.field])
    ]_vars

\* C2: a PATCH of the profile section is in flight only if neither lookup of
\* its save came to "error" (taken or reserved), whatever other lookups on the
\* same field were in flight or started meanwhile.
C2_NoPatchWhenTaken ==
  \A r \in net :
    (r.kind = "save" /\ r.section = "profile") =>
      (r.uAnswer # "error" /\ r.pAnswer # "error")

----------------------------------------------------------------------------
(* Save specification: each section is edited, saved and answered *)

\* what a 2xx answer confirms for the fields of a section
Confirmed(resp) ==
  [ displayName |-> resp.profile.display_name,
    username    |-> resp.profile.username,
    profileUrl  |-> resp.profile.profile_url,
    bio         |-> resp.profile.bio,
    location    |-> resp.profile.location,
    interests   |-> resp.profile.interests,
    status      |-> resp.profile.status,
    photoUrl    |-> resp.profile.photo_url,
    visibility  |-> resp.profile.visibility,
    showLocation |-> BoolOf(resp.profile.show_location),
    allowSearch  |-> BoolOf(resp.profile.allow_search),
    emailNotifications |-> BoolOf(resp.prefs.email_notifications),
    productUpdates     |-> BoolOf(resp.prefs.product_updates),
    newFollowerAlerts  |-> BoolOf(resp.prefs.new_follower_alerts),
    weeklyDigest       |-> BoolOf(resp.prefs.weekly_digest),
    pauseNotifications |-> resp.prefs.pause_notifications,
    theme       |-> resp.profile.theme ]

\* one edit per section
SaveEdits ==
  { <<"displayName", TxtHello>>, <<"visibility", "private">>,
    <<"weeklyDigest", TRUE>>, <<"theme", "dark">> }

Clean == ~SectionChanged(saved, draft, activeSection)

InitSave ==
  InitFrom(InitWorld(StoredRecord("t1", UserMika), "/settings", "profile", FALSE))

NextSave ==
  \/ Boot
  \/ \E r \in net : SessionOk(r, UserMika)
  \/ \E r \in net : ProfileLoaded(r, OkProfile(ProfileOf(UserMika)))
  \/ \E r \in net : NotificationsLoaded(r, OkBare)
  \/ \E s \in {"profile", "privacy", "notifications", "appearance"} :
       net = {} /\ Clean /\ SectionChange(s)
  \/ \E e \in SaveEdits : net = {} /\ Clean /\ EditField(e[1], e[2])
  \/ net = {} /\ Save
  \/ \E r \in net : SaveDone(r, OkProfile(Applied(r)))
  \/ \E r \in net : SaveDone(r, OkPrefs(AppliedPrefs(r)))
  \/ \E r \in net : SaveDone(r, OkBare)
  \/ \E r \in net : SaveDone(r, HttpError({"display_name"}))
  \/ net = {} /\ Cancel

SpecSave == InitSave /\ [][NextSave]_vars

\* C3: when a save of a section is answered 2xx on the page that sent it,
\* draft equals saved on every field of the section, and a saved field of the
\* section changes only to the value the answer confirms for it: never to a
\* value taken from the draft when the answer confirms none.
C3_SavedIsServerConfirmed ==
  [][ (ev'.op = "SaveDone" /\ ev'.resp.status = "ok" /\ ev'.req.live) =>
        \A f \in sectionFieldMap(ev'.req.section) :
          /\ draft'[f] = saved'[f]
          /\ saved'[f] # saved[f] =>
               /\ ev'.resp.hasProfile \/ ev'.resp.hasPrefs
               /\ saved'[f] = Confirmed(ev'.resp)[f]
    ]_vars

----------------------------------------------------------------------------
(* Prompt specification: edits, the ways out of a section, the discard      *)
(* dialog, and the profile reload                                           *)

DirtyReload ==
  SectionChanged(saved, draft, "profile") \/ SectionChanged(saved, draft, "privacy")

PromptEdits ==
  { <<"displayName", TxtHello>>, <<"displayName", TxtMika>>,
    <<"visibility", "private">> }

InitPrompt ==
  \E mobile \in BOOLEAN :
    InitFrom(InitWorld(StoredRecord("t1", UserMika), "/settings", "profile", mobile))

NextPrompt ==
  \/ Boot
  \/ \E r \in net : SessionOk(r, UserMika)
  \/ \E r \in net : ProfileLoaded(r, OkProfile(ProfileOf(UserMikaEdited)))
  \/ \E e \in PromptEdits : Once("session") /\ EditField(e[1], e[2])
  \/ \E s \in {"profile", "privacy", "account"} : Once("session") /\ SectionChange(s)
  \/ Once("session") /\ BackToList
  \/ Once("session") /\ BackToProfile
  \/ DiscardConfirm
  \/ DiscardCancel
  \/ net = {} /\ OpenSettings("privacy")
  \/ net = {} /\ Resize

SpecPrompt == InitPrompt /\ [][NextPrompt]_vars

\* the step leaves the section that is open: another section becomes active,
\* the mobile list replaces the section, or the settings page is left
LeavesSection ==
  \/ activeSection' # activeSection
  \/ route' # route
  \/ showMobileList' /\ ~showMobileList

\* C4: while the active section is dirty, a click on another section, on
\* "back to list" or on "back to profile" opens the discard dialog and records
\* its target instead of navigating, and no step other than the confirmation
\* of the dialog leaves the section.
C4_DirtySectionIsGuarded ==
  [][ (route = "/settings" /\ SectionChanged(saved, draft, activeSection)) =>
        /\ LeavesSection => ev'.op = "DiscardConfirm"
        /\ (/\ ev'.op \in {"SectionChange", "BackToList", "BackToProfile"}
            /\ ev'.req.section # activeSection) =>
             /\ discardOpen'
             /\ pendingSection' = ev'.req.section
             /\ draft' = draft
    ]_vars

\* a click on another section was intercepted: the dialog is open over the
\* dirty section, with the click's target pending
C4_SectionClickIntercepted ==
  /\ ev.op = "SectionChange"
  /\ discardOpen
  /\ pendingSection = "privacy"
  /\ activeSection = "profile"
  /\ SectionChanged(saved, draft, "profile")

\* C5 as stated: confirming the dialog resets draft to saved, closes the
\* dialog, clears the pending target and completes the pending navigation:
\* the pending section becomes active, or the mobile list is shown, or the
\* route becomes /profile.
C5_ConfirmCompletesNavigation ==
  [][ ev'.op = "DiscardConfirm" =>
        /\ draft' = saved'
        /\ ~discardOpen'
        /\ pendingSection' = ""
        /\ CASE pendingSection = "back" -> route' = "/profile"
             [] pendingSection = "list" -> route' = "/settings" /\ showMobileList'
             [] OTHER -> route' = "/settings" /\ activeSection' = pendingSection
    ]_vars

\* C5, with the mobile list only where there is one: pending "list" ends on
\* the mobile list if the viewport is still mobile when the dialog is confirmed.
C5_ConfirmCompletesNavigationOnScreen ==
  [][ ev'.op = "DiscardConfirm" =>
        /\ draft' = saved'
        /\ ~discardOpen'
        /\ pendingSection' = ""
        /\ CASE pendingSection = "back" -> route' = "/profile"
             [] pendingSection = "list" ->
                  route' = "/settings" /\ (isMobile => showMobileList')
             [] OTHER -> route' = "/settings" /\ activeSection' = pendingSection
    ]_vars

\* the dialog was confirmed with a section pending, and that section is open
C5_ConfirmedToSection ==
  /\ ev.op = "DiscardConfirm"
  /\ ev.req.section = "privacy"
  /\ activeSection = "privacy"
  /\ draft = saved

\* C6: cancelling the dialog leaves draft, saved, the active section and the
\* page as they are, closes the dialog and clears the pending target; and a
\* target is pending only while the dialog is open, so nothing completes the
\* intercepted navigation later.
C6_CancelKeepsEdits ==
  /\ [][ ev'.op = "DiscardCancel" =>
           /\ draft' = draft
           /\ saved' = saved
           /\ activeSection' = activeSection
           /\ route' = route
           /\ showMobileList' = showMobileList
           /\ ~discardOpen'
           /\ pendingSection' = "" ]_vars
  /\ [](pendingSection # "" => discardOpen)

\* the dialog was cancelled and the edit is still in the draft
C6_CancelledWithEdits ==
  /\ ev.op = "DiscardCancel"
  /\ activeSection = "profile"
  /\ draft.displayName = TxtHello
  /\ saved.displayName = TxtMika

\* C8: a GET /auth/profile/ reload is never started by a step that ends with
\* the profile or the privacy section dirty, and the answer to a reload that
\* arrives while either is dirty changes neither saved nor draft.
C8_ReloadKeepsEdits ==
  [][ /\ \A r \in net' \ net :
           (r.kind = "getProfile" /\ r.isActive) => ~DirtyReload'
      /\ (ev'.op = "ProfileLoaded" /\ DirtyReload) =>
           (draft' = draft /\ saved' = saved)
    ]_vars

\* a reload was answered with a profile while an edit made during the reload
\* was unsaved, and the edit is still there
C8_AnsweredOverEdit ==
  /\ ev.op = "ProfileLoaded"
  /\ ev.req.live
  /\ ev.resp.hasProfile
  /\ draft.displayName = TxtHello
  /\ saved.displayName = TxtMika

----------------------------------------------------------------------------
(* Store specification: the session record in memory and in storage, with   *)
(* a status save and a logout from the profile page                         *)

InitStore ==
  \E st \in {NoRecord, StoredRecord("t1", UserMika)} :
    InitFrom(InitWorld(st, "/profile", "", FALSE))

NextStore ==
  \/ Boot
  \/ \E r \in net : SessionOk(r, UserMika)
  \/ \E r \in net : SessionFail(r, "http")
  \/ \E v \in LoginInputs : net = {} /\ LoginSubmit(v)
  \/ \E r \in net : AuthOk(r, "t1", UserMika)
  \/ \E r \in net : AuthFail(r, HttpError({"identifier"}))
  \/ Once("status") /\ StatusSave(TxtHello)
  \/ \E r \in net : StatusDone(r, OkBare)
  \/ \E r \in net : StatusDone(r, WithUser(OkBare, UserMikaEdited))
  \/ \E r \in net : StatusDone(r, Failure("network"))
  \/ Once("logout") /\ LogoutStart("page")
  \/ \E r \in net : LogoutDone(r, Failure("ok"))

SpecStore == InitStore /\ [][NextStore]_vars

\* C11: once the application has started, the stored record is absent or
\* holds a non-empty token with a user, and when restoration is complete the
\* token in memory is non-empty exactly when the user in memory is not null.
C11_TokenAndUserTogether ==
  booted =>
    /\ \/ storage.kind = "none"
       \/ storage.kind = "record" /\ storage.token # "" /\ storage.user.exists
    /\ ~isRestoring => (token # "" <=> user.exists)

\* C12: whenever the session is authenticated and no request is in flight,
\* the stored record holds the token and the user that are in memory.
C12_StorageFollowsMemory ==
  (booted /\ token # "" /\ user.exists /\ net = {}) =>
    storage = StoredRecord(token, user)

----------------------------------------------------------------------------
(* Startup specification: every kind of stored record, the revalidation     *)
(* and its answer; each call is answered in the end                         *)

InitStartup ==
  \E st \in {NoRecord, Garbage, StoredRecord("", UserMika),
             StoredRecord("t1", UserMika)},
     path \in {"/", "/profile"} :
    InitFrom(InitWorld(st, path, "", FALSE))

SessionAnswered ==
  \E r \in net : SessionOk(r, UserMika) \/ SessionFail(r, "http")

NextStartup ==
  \/ Boot
  \/ \E r \in net : SessionOk(r, UserMika)
  \/ \E r \in net, k \in {"http", "network"} : SessionFail(r, k)
  \/ \E v \in LoginInputs : net = {} /\ LoginSubmit(v)
  \/ \E r \in net : AuthOk(r, "t1", UserMika)
  \/ \E r \in net : AuthFail(r, HttpError({"identifier"}))
  \/ Once("logout") /\ LogoutStart("page")
  \/ \E r \in net : LogoutDone(r, Failure("ok"))

SpecStartup ==
  /\ InitStartup
  /\ [][NextStartup]_vars
  /\ WF_vars(Boot)
  /\ WF_vars(SessionAnswered)

\* C13: whatever the stored record, isRestoring becomes false in the end;
\* and when the silent revalidation fails, the token is emptied, the user set
\* to null, the stored record removed, and no toast and no form error appears.
C13_RestorationCompletesSilently ==
  /\ isRestoring ~> ~isRestoring
  /\ [][ ev'.op = "SessionFail" =>
           /\ token' = ""
           /\ ~user'.exists
           /\ storage' = NoRecord
           /\ ~isRestoring'
           /\ toast' \in {toast, NoToast}
           /\ ~formError' ]_vars

\* the revalidation of a stored token has failed and restoration is complete
C13_FailedRestoreEnded ==
  /\ ev.op = "SessionFail"
  /\ ev.req.restoring
  /\ ~isRestoring
  /\ token = ""
  /\ storage = NoRecord

----------------------------------------------------------------------------
(* Handle specification: the username and profileUrl inputs are given       *)
(* values of every kind and blurred                                         *)

TxtMIKA == <<"M","I","K","A">>

TxtMikaSpaced == <<" ","m","i","k","a"," ">>

TxtAdmin == <<"a","d","m","i","n">>

TxtAdminCased == <<" ","A","d","m","i","n">>

TxtTwoWords == <<"a","l"," ","i","c","e">>

\* an account whose saved handle is a reserved one
UserAdmin == [UserMika EXCEPT !.username = TxtAdmin, !.profile_url = TxtAdmin]

HandleInputs ==
  { <<>>, TxtAl, TxtTwoWords, TxtMIKA, TxtMikaSpaced, TxtAdmin, TxtAdminCased,
    TxtAlice }

InitHandle ==
  \E u \in {UserMika, UserAdmin} :
    InitFrom(InitWorld(StoredRecord("t1", u), "/settings", "profile", FALSE))

NextHandle ==
  \/ Boot
  \/ \E r \in net : SessionOk(r, user)
  \/ \E r \in net : ProfileLoaded(r, Failure("network"))
  \/ \E f \in {"username", "profileUrl"}, v \in HandleInputs :
       net = {} /\ EditField(f, v)
  \/ \E f \in {"username", "profileUrl"} : net = {} /\ BlurField(f)
  \/ \E r \in net, b \in BOOLEAN : AvailabilityDone(r, Available(b))

SpecHandle == InitHandle /\ [][NextHandle]_vars

\* the field has no lookup of its latest invocation in flight
NoLookup(n, field) ==
  \A r \in n : ~(r.kind = "avail" /\ r.field = field /\ r.latest)

\* C14: on blur, a value that is empty or fails the handle pattern once
\* trimmed sets the field's status to neutral; otherwise a value equal, trimmed
\* and lower-cased, to the saved value of the field sets it to success, a
\* reserved handle included; otherwise a reserved handle sets it to error; and
\* in these three cases no lookup is sent.
C14_DecidedWithoutLookup ==
  [][ ev'.op = "BlurField" =>
        LET f == ev'.req.field
            v == toLowerCase(trim(draft[f]))
        IN  CASE trim(draft[f]) = <<>> \/ ~usernamePattern(trim(draft[f])) ->
                   availability'[f] = "neutral" /\ NoLookup(net', f)
              [] v = toLowerCase(trim(saved[f])) ->
                   availability'[f] = "success" /\ NoLookup(net', f)
              [] v \in RESERVED_HANDLES ->
                   availability'[f] = "error" /\ NoLookup(net', f)
              [] OTHER -> ~NoLookup(net', f)
    ]_vars

\* the saved handle is reserved, the input holds it in another case, and the
\* blur has set the status to success
C14_SavedReservedIsSuccess ==
  /\ ev.op = "BlurField"
  /\ ev.req.field = "username"
  /\ saved.username = TxtAdmin
  /\ draft.username = TxtAdminCased
  /\ availability.username = "success"

----------------------------------------------------------------------------
(* SettingsPage: the interest tags *)

\* handleAddInterest, with interestInput = input
handleAddInterest(w, input) ==
  LET trimmed == trim(input) IN
  IF \/ trimmed = <<>>
     \/ \E i \in DOMAIN w.draft.interests : w.draft.interests[i] = trimmed
     \/ Len(w.draft.interests) >= MaxInterests
  THEN w
  ELSE [w EXCEPT !.draft.interests = Append(@, trimmed)]

AddInterest(input) ==
  /\ SectionVisible
  /\ activeSection = "profile"
  /\ Step([handleAddInterest(World, input) EXCEPT
             !.ev = Event("AddInterest", [NoReq EXCEPT !.field = "interests"], NoResp)])

\* handleRemoveInterest(tag)
handleRemoveInterest(w, tag) ==
  [w EXCEPT !.draft.interests = SelectSeq(@, LAMBDA item : item # tag)]

RemoveInterest(tag) ==
  /\ SectionVisible
  /\ activeSection = "profile"
  /\ \E i \in DOMAIN draft.interests : draft.interests[i] = tag
  /\ Step([handleRemoveInterest(World, tag) EXCEPT
             !.ev = Event("RemoveInterest", [NoReq EXCEPT !.field = "interests"],
                          NoResp)])

----------------------------------------------------------------------------
(* Dirty specification: edits in every section, done and undone *)

TxtA == <<"a">>

TxtB == <<"b">>

\* one tag whose characters are those between the brackets of ["a","b"]
TxtQuoted == <<"a","\"",",","\"","b">>

\* an account with two interest tags
UserTags == [UserMika EXCEPT !.interests = <<TxtA, TxtB>>, !.bio = <<"x">>]

DirtyEdits ==
  { <<"bio", <<"x">> >>, <<"bio", <<"x","y">> >>, <<"visibility", "private">>,
    <<"visibility", "public">>, <<"allowSearch", FALSE>>, <<"allowSearch", TRUE>>,
    <<"theme", "dark">>, <<"theme", "system">>, <<"weeklyDigest", TRUE>>,
    <<"weeklyDigest", FALSE>> }

InitDirty ==
  InitFrom(InitWorld(StoredRecord("t1", UserTags), "/settings", "profile", FALSE))

NextDirty ==
  \/ Boot
  \/ \E r \in net : SessionOk(r, UserTags)
  \/ \E r \in net : ProfileLoaded(r, OkProfile(ProfileOf(UserTags)))
  \/ \E r \in net : NotificationsLoaded(r, OkBare)
  \/ \E e \in DirtyEdits : net = {} /\ EditField(e[1], e[2])
  \/ \E t \in {TxtA, TxtB, TxtQuoted} : net = {} /\ AddInterest(t)
  \/ \E t \in {TxtA, TxtB, TxtQuoted} : net = {} /\ RemoveInterest(t)
  \/ \E s \in {"profile", "privacy", "notifications", "appearance"} :
       net = {} /\ SectionChange(s)
  \/ DiscardCancel
  \/ DiscardConfirm

SpecDirty == InitDirty /\ [][NextDirty]_vars

\* C15: for each section, hasSectionChanges is true exactly when a field of
\* the section's list differs between saved and draft; so a field set back to
\* its saved value leaves the section clean, and a field outside the list
\* never makes it dirty.
C15_DirtyIsFieldwise ==
  \A s \in {"profile", "privacy", "notifications", "appearance", "account"} :
    SectionChanged(saved, draft, s) <=>
      (\E f \in sectionFieldMap(s) : saved[f] # draft[f])

\* the draft holds one tag that reads like the two saved ones, and the
\* profile section is dirty
C15_TagsDifferOnlyInQuotes ==
  /\ saved.interests = <<TxtA, TxtB>>
  /\ draft.interests = <<TxtQuoted>>
  /\ SectionChanged(saved, draft, "profile")
  /\ ~SectionChanged(saved, draft, "privacy")

-----------------------------------------------------------------------------
(* The toast and its dismissal timer *)

\* the callback of setTimeout(() => setToast(null), 3200)
TimerFires(id) ==
  /\ id \in timers
  /\ Step([World EXCEPT !.toast = NoToast, !.timers = @ \ {id},
                        !.ev = Event("TimerFires", [NoReq EXCEPT !.seq = id], NoResp)])

InitToast == InitFrom(InitWorld(StoredRecord("t1", UserMika), "/profile", "", FALSE))

NextToast ==
  \/ Boot
  \/ \E r \in net : SessionOk(r, UserMika)
  \/ StatusSave(TxtHello)
  \/ \E r \in net : StatusDone(r, OkBare)
  \/ \E r \in net : StatusDone(r, Failure("network"))
  \/ \E id \in 1..MaxTimers : TimerFires(id)
  \/ \E t \in {"profile", "notifications"} : net = {} /\ OpenSettings(t)
  \/ \E r \in net : ProfileLoaded(r, Failure("network"))
  \/ \E r \in net : NotificationsLoaded(r, Failure("network"))
  \/ BackToProfile

SpecToast == InitToast /\ [][NextToast]_vars

-----------------------------------------------------------------------------
(* The profile photo *)

PhotoReq(kind, tok, u) ==
  [NoReq EXCEPT !.kind = kind, !.token = tok, !.cuser = u, !.live = TRUE]

\* handlePhotoUpload up to its await; file: the name of event.target.files?.[0],
\* empty when no file was chosen
handlePhotoUpload(w, file) ==
  CASE file = <<>> -> w
    [] w.token = "" -> [w EXCEPT !.toast = SessionExpired]
    [] OTHER -> Issue([w EXCEPT !.photoUploading = TRUE],
                      PhotoReq("photoUpload", w.token, w.user))

\* the file input of the profile section: disabled={photoUploading}
PhotoUpload(file) ==
  /\ SectionVisible
  /\ activeSection = "profile"
  /\ ~photoUploading
  /\ \E cur \in {World} :
       Step([handlePhotoUpload(cur, file) EXCEPT
               !.ev = Event("PhotoUpload", [NoReq EXCEPT !.value = file], NoResp)])

\* handlePhotoRemove up to its await
handlePhotoRemove(w) ==
  IF w.token = ""
  THEN [w EXCEPT !.toast = SessionExpired]
  ELSE Issue([w EXCEPT !.photoUploading = TRUE],
             PhotoReq("photoRemove", w.token, w.user))

\* "Remove photo": disabled={photoUploading || !draft.photoUrl}
PhotoRemove ==
  /\ SectionVisible
  /\ activeSection = "profile"
  /\ ~photoUploading
  /\ draft.photoUrl # <<>>
  /\ \E cur \in {World} :
       Step([handlePhotoRemove(cur) EXCEPT
               !.ev = Event("PhotoRemove", NoReq, NoResp)])

\* POST /auth/profile/photo/ answered with {photo_url}
OkPhoto(url) == [NoResp EXCEPT !.status = "ok", !.photo_url = url]

\* the photo the two handlers put into draft and saved
PhotoOf(r, resp) == IF r.kind = "photoUpload" THEN resp.photo_url ELSE <<>>

\* the success branch with setSaved left out
photoAppliedToDraftOnly(w, r, resp) ==
  [w EXCEPT !.draft.photoUrl = PhotoOf(r, resp)]

\* setDraft((prev) => ({...prev, photoUrl})); setSaved((prev) => ({...prev, photoUrl}))
photoApplied(w, r, resp) ==
  [w EXCEPT !.draft.photoUrl = PhotoOf(r, resp), !.saved.photoUrl = PhotoOf(r, resp)]

\* handlePhotoUpload and handlePhotoRemove after their await
photoSettled(w, r, resp) ==
  One({ CASE resp.status # "ok" ->
               IF r.live THEN [x EXCEPT !.toast = RequestFailed, !.photoUploading = FALSE]
               ELSE x
          [] OTHER ->
               LET local ==
                     IF r.live
                     THEN [photoApplied(x, r, resp) EXCEPT
                             !.photoUploading = FALSE,
                             !.toast = IF r.kind = "photoUpload"
                                       THEN Toast("Profile photo updated.", "success")
                                       ELSE Toast("Profile photo removed.", "success")]
                     ELSE x
               IN  CASE r.kind = "photoUpload" /\ resp.hasUser -> setUser(local, resp.user)
                     [] r.kind = "photoRemove" /\ r.cuser.exists ->
                          setUser(local, [r.cuser EXCEPT !.photo_url = <<>>])
                     [] OTHER -> local
        : x \in {w} })

PhotoDone(r, resp) ==
  /\ r \in net
  /\ r.kind \in {"photoUpload", "photoRemove"}
  /\ resp.status \in {"ok", "http", "network"}
  /\ \E cur \in {Remove(World, r)} :
       Step([photoSettled(cur, r, resp) EXCEPT !.ev = Event("PhotoDone", r, resp)])

TxtPhoto == <<"p",".","p","n","g">>

UserWithPhoto == [UserMika EXCEPT !.photo_url = TxtPhoto]

InitPhoto ==
  \E u \in {UserMika, UserWithPhoto} :
    InitFrom(InitWorld(StoredRecord("t1", u), "/settings", "profile", FALSE))

NextPhoto ==
  \/ Boot
  \/ \E r \in net : SessionOk(r, storage.user)
  \/ \E r \in net : ProfileLoaded(r, OkProfile(ProfileOf(user)))
  \/ \E r \in net : ProfileLoaded(r, Failure("network"))
  \/ Loaded /\ Clean /\ EditField("displayName", TxtHello)
  \/ \E f \in {<<>>, TxtPhoto} : Loaded /\ PhotoUpload(f)
  \/ Loaded /\ PhotoRemove
  \/ \E r \in net : \E url \in {TxtPhoto, <<>>} : PhotoDone(r, OkPhoto(url))
  \/ \E r \in net : PhotoDone(r, WithUser(OkPhoto(TxtPhoto), UserWithPhoto))
  \/ \E r \in net : \E k \in {"http", "network"} : PhotoDone(r, Failure(k))
  \/ Once("save") /\ Loaded /\ Save
  \/ \E r \in net : SaveDone(r, OkProfile(Applied(r)))
  \/ \E r \in net : SaveDone(r, Failure("network"))
  \/ net = {} /\ Cancel
  \/ net = {} /\ BackToProfile
  \/ net = {} /\ OpenSettings("profile")

SpecPhoto == InitPhoto /\ [][NextPhoto]_vars

\* C17: in every state draft.photoUrl equals saved.photoUrl, so the photo
\* never makes the profile section dirty; a successful upload or removal
\* that answers the mounted page leaves both holding the photo it applied,
\* and a failed one changes neither draft nor saved.
C17_PhotoIsNeverDirty ==
  /\ [](JSONstringify("photoUrl", saved.photoUrl) = JSONstringify("photoUrl", draft.photoUrl))
  /\ [][(ev'.op = "PhotoDone" /\ ev'.resp.status = "ok" /\ ev'.req.live
           /\ route' = "/settings")
          => /\ draft'.photoUrl = saved'.photoUrl
             /\ draft'.photoUrl = PhotoOf(ev'.req, ev'.resp)]_vars
  /\ [][(ev'.op = "PhotoDone" /\ ev'.resp.status # "ok")
          => draft' = draft /\ saved' = saved]_vars

\* an upload succeeded while another field of the profile draft was edited
C17_UploadedWhileDirty ==
  /\ ev.op = "PhotoDone"
  /\ ev.resp.status = "ok"
  /\ ev.req.live
  /\ draft.photoUrl = TxtPhoto
  /\ saved.photoUrl = TxtPhoto
  /\ draft.displayName # saved.displayName

-----------------------------------------------------------------------------
(* Saves that fail *)

NextFail ==
  \/ NextSave
  \/ \E r \in net : SaveDone(r, Failure("network"))
  \/ \E r \in net : SaveDone(r, HttpError({"display_name", "profile_url", "detail"}))

SpecFail == InitSave /\ [][NextFail]_vars

\* C18: when the PATCH of a save is answered with a network failure or an
\* HTTP error on the page that sent it, draft and saved are unchanged, an
\* error toast is shown with its timer, isSaving is false, no call is issued,
\* and in the profile section the server's field errors appear under the
\* keys local validation uses.
C18_FailedSaveKeepsEdits ==
  [][(/\ ev'.op = "SaveDone"
      /\ ev'.resp.status \in {"http", "network"}
      /\ ev'.req.live)
       => /\ draft' = draft
          /\ saved' = saved
          /\ toast'.type = "error"
          /\ timers' = {timerRef'}
          /\ ~isSaving'
          /\ net' = net \ {ev'.req}
          /\ (ev'.req.section = "profile" /\ "display_name" \in ev'.resp.errors)
               => "displayName" \in profileErrors'
          /\ (ev'.req.section = "profile" /\ "profile_url" \in ev'.resp.errors)
               => "profileUrl" \in profileErrors'
          /\ profileErrors' \subseteq
               {"displayName", "username", "profileUrl", "status", "bio",
                "location", "interests"}]_vars

\* a profile save was refused with field errors and the edit is still there
C18_RefusedWithFieldErrors ==
  /\ ev.op = "SaveDone"
  /\ ev.resp.status = "http"
  /\ ev.req.section = "profile"
  /\ profileErrors = {"displayName", "profileUrl"}
  /\ draft.displayName = TxtHello
  /\ saved.displayName # TxtHello
  /\ ~isSaving
  /\ net = {}

-----------------------------------------------------------------------------
(* The "Change email" dialog *)

\* onClick of "Change email", with the effect on changeEmailOpen
OpenChangeEmail ==
  /\ SectionVisible
  /\ activeSection = "account"
  /\ ~changeEmailOpen
  /\ Step([World EXCEPT !.changeEmailOpen = TRUE, !.emailErrors = {},
                        !.ev = Event("OpenChangeEmail", NoReq, NoResp)])

\* onClose of the dialog and its Cancel button
CloseChangeEmail ==
  /\ SettingsInteractive
  /\ changeEmailOpen
  /\ Step([World EXCEPT !.changeEmailOpen = FALSE, !.emailErrors = {},
                        !.ev = Event("CloseChangeEmail", NoReq, NoResp)])

\* nextErrors of handleEmailSubmit
validateEmail(values) ==
  (IF trim(values.email) = <<>> \/ ~emailPattern(trim(values.email))
   THEN {"email"} ELSE {})
  \cup (IF values.password = <<>> THEN {"password"} ELSE {})

EmailReq(tok) == [NoReq EXCEPT !.kind = "email", !.token = tok, !.live = TRUE]

\* handleEmailSubmit with the token check left out
handleEmailSubmitUnchecked(w, values) ==
  IF validateEmail(values) # {}
  THEN [w EXCEPT !.emailErrors = validateEmail(values)]
  ELSE Issue([w EXCEPT !.emailErrors = {}], EmailReq(w.token))

\* handleEmailSubmit up to its await
handleEmailSubmit(w, values) ==
  CASE validateEmail(values) # {} -> [w EXCEPT !.emailErrors = validateEmail(values)]
    [] w.token = "" -> [w EXCEPT !.emailErrors = {}, !.toast = SessionExpired]
    [] OTHER -> Issue([w EXCEPT !.emailErrors = {}], EmailReq(w.token))

\* onSubmit of the form of the dialog
EmailSubmit(values) ==
  /\ SettingsInteractive
  /\ changeEmailOpen
  /\ \E cur \in {World} :
       Step([handleEmailSubmit(cur, values) EXCEPT
               !.ev = Event("EmailSubmit", NoReq, NoResp)])

\* handleEmailSubmit after its await: persistAuth(token, data.user)
EmailOk(r, u) ==
  /\ r \in net
  /\ r.kind = "email"
  /\ \E cur \in {persistAuth(Remove(World, r), r.token, u)} :
       Step([(IF r.live
              THEN [cur EXCEPT !.changeEmailOpen = FALSE, !.emailErrors = {},
                               !.toast = Toast("Email updated successfully.", "success")]
              ELSE cur)
             EXCEPT !.ev = Event("EmailOk", r, WithUser(OkBare, u))])

\* the catch block: setEmailErrors(payload.errors || {})
EmailFail(r, resp) ==
  /\ r \in net
  /\ r.kind = "email"
  /\ resp.status \in {"http", "network"}
  /\ \E cur \in {Remove(World, r)} :
       Step([(IF r.live
              THEN [cur EXCEPT !.emailErrors = resp.errors, !.toast = RequestFailed]
              ELSE cur)
             EXCEPT !.ev = Event("EmailFail", r, resp)])

EmailInputs ==
  { [email |-> TxtEmail, password |-> Txt_mika],
    [email |-> Txt_mika, password |-> <<>>] }

-----------------------------------------------------------------------------
(* The settings page of a user whose token is empty: a status save answered *)
(* after the logout leaves the user signed in without a token               *)

ExpiredEdits ==
  { <<"displayName", TxtHello>>, <<"username", TxtAdmin>>, <<"visibility", "private">>,
    <<"weeklyDigest", TRUE>>, <<"theme", "dark">> }

InitExpired == InitFrom(InitWorld(StoredRecord("t1", UserWithPhoto), "/profile", "", FALSE))

NextExpired ==
  \/ Boot
  \/ \E r \in net : SessionOk(r, UserWithPhoto)
  \/ Once("status") /\ Once("logout") /\ token # "" /\ StatusSave(TxtHello)
  \/ Once("logout") /\ ~Once("status") /\ LogoutStart("page")
  \/ \E r \in net : LogoutDone(r, Failure("ok"))
  \/ \E r \in net : Once("logout") /\ StatusDone(r, OkBare)
  \/ \E t \in settingsSectionIds : net = {} /\ token = "" /\ OpenSettings(t)
  \/ \E e \in ExpiredEdits : ~changeEmailOpen /\ Clean /\ EditField(e[1], e[2])
  \/ ~changeEmailOpen /\ Save
  \/ \E f \in {<<>>, TxtPhoto} : ~changeEmailOpen /\ PhotoUpload(f)
  \/ ~changeEmailOpen /\ PhotoRemove
  \/ \E v \in PasswordInputs : ~changeEmailOpen /\ PasswordSave(v)
  \/ OpenChangeEmail
  \/ CloseChangeEmail
  \/ \E v \in EmailInputs : EmailSubmit(v)
  \/ ~changeEmailOpen /\ BackToProfile

SpecExpired == InitExpired /\ [][NextExpired]_vars

\* the operations of the settings page that call the API
Guarded == {"Save", "PhotoUpload", "PhotoRemove", "PasswordSave", "EmailSubmit"}

\* what C19 promises of one step
AbortedWithWarning ==
  /\ net' = net
  /\ toast'.type = "warning"
  /\ timers' = {timerRef'}
  /\ draft' = draft
  /\ saved' = saved
  /\ token' = token
  /\ user' = user
  /\ storage' = storage
  /\ route' = route

\* C19, as stated: with an empty token a save, a photo upload or removal, a
\* password change or an email change issues no request, shows a warning
\* toast, leaves draft and saved alone and keeps the user signed in.
C19_NoTokenNoCall ==
  [][(token = "" /\ ev'.op \in Guarded) => AbortedWithWarning]_vars

\* the input of the operation passed the checks that come before the token
\* check: a file was chosen, the form is valid, no handle is refused
PassedLocalChecks ==
  /\ ev'.op = "PhotoUpload" => ev'.req.value # <<>>
  /\ ev'.op = "PasswordSave" => formErrors' = {}
  /\ ev'.op = "EmailSubmit" => emailErrors' = {}
  /\ ev'.op = "Save" =>
       /\ profileErrors' = {}
       /\ availability'.username # "error"
       /\ availability'.profileUrl # "error"

\* C19, amended: the same, for an operation whose input passed its local
\* checks; otherwise the operation stops at the failed check, without a toast.
C19_NoTokenNoCallWhenValid ==
  [][(token = "" /\ ev'.op \in Guarded)
       => /\ net' = net /\ draft' = draft /\ saved' = saved
          /\ token' = token /\ user' = user /\ storage' = storage /\ route' = route
          /\ PassedLocalChecks => AbortedWithWarning]_vars

\* the photo removal of a user without a token ended with the warning
C19_RemovalRefused ==
  /\ ev.op = "PhotoRemove"
  /\ token = ""
  /\ user.exists
  /\ toast = [SessionExpired EXCEPT !.fresh = FALSE]
  /\ draft.photoUrl = TxtPhoto
  /\ net = {}

-----------------------------------------------------------------------------
(* handleSave on a section without changes *)

\* handleSave run while the active section has no changes.  The buttons that
\* call it are disabled then, so this is the first check of the handler itself.
SaveWhenClean ==
  /\ SectionVisible
  /\ ~SectionChanged(saved, draft, activeSection)
  /\ \E cur \in {World} :
       Step([handleSave(cur) EXCEPT !.ev = Event("SaveWhenClean", NoReq, NoResp)])

NextClean ==
  \/ NextSave
  \/ net = {} /\ SectionChange("account")
  \/ \E v \in {<<>>, saved.displayName} : net = {} /\ EditField("displayName", v)
  \/ SaveWhenClean

SpecClean == InitSave /\ [][NextClean]_vars

\* C20: handleSave on a section without changes does nothing: no validation
\* result is stored, no availability check and no call is started, no toast
\* is shown, and draft, saved, the errors and isSaving stay as they were.
C20_SaveOfCleanSectionIsNoOp ==
  [][ev'.op = "SaveWhenClean"
       => /\ net' = net
          /\ availability' = availability
          /\ availabilityRequestRef' = availabilityRequestRef
          /\ toast' = toast
          /\ timerRef' = timerRef
          /\ timers' = timers
          /\ draft' = draft
          /\ saved' = saved
          /\ profileErrors' = profileErrors
          /\ isSaving' = isSaving
          /\ token' = token /\ user' = user /\ storage' = storage
          /\ route' = route /\ activeSection' = activeSection]_vars

\* handleSave ran on a clean profile section that still shows an error of an
\* earlier validation
C20_CleanWithOldErrors ==
  /\ ev.op = "SaveWhenClean"
  /\ activeSection = "profile"
  /\ profileErrors # {}
  /\ draft = saved
  /\ net = {}

-----------------------------------------------------------------------------
(* Cancel *)

NextCancel ==
  \/ NextFail
  \/ net = {} /\ Clean /\ EditField("username", TxtAlice)
  \/ net = {} /\ BlurField("username")
  \/ \E r \in net : \E b \in BOOLEAN : AvailabilityDone(r, Available(b))

SpecCancel == InitSave /\ [][NextCancel]_vars

\* C21: Cancel leaves draft equal to saved on every field, the profile
\* errors empty and both availability flags neutral, and does not change
\* saved; no section is dirty afterwards, and handleCancel applied twice
\* gives what it gives applied once.
C21_CancelRestoresSaved ==
  /\ [][ev'.op = "Cancel"
          => /\ draft' = saved
             /\ saved' = saved
             /\ profileErrors' = {}
             /\ availability' = NeutralAvailability
             /\ \A s \in settingsSectionIds : ~SectionChanged(saved', draft', s)]_vars
  /\ [](handleCancel(handleCancel(World)) = handleCancel(World))

\* Cancel discarded a handle whose lookup had answered, and started the reload
C21_CancelledAfterLookup ==
  /\ ev.op = "Cancel"
  /\ draft = saved
  /\ availabilityRequestRef.username > 0
  /\ availability = NeutralAvailability
  /\ profileErrors = {}

-----------------------------------------------------------------------------
(* Forms that fail their validator *)

InitForms == InitFrom(InitWorld(NoRecord, "/", "", FALSE))

NextForms ==
  \/ Boot
  \/ \E v \in LoginInputs : net = {} /\ LoginSubmit(v)
  \/ \E v \in SignupInputs : net = {} /\ SignupSubmit(v)
  \/ \E r \in net : AuthOk(r, "t1", UserMika)
  \/ \E r \in net : AuthFail(r, HttpError({"identifier"}))
  \/ \E r \in net : SessionOk(r, UserMika)
  \/ \E t \in {"account", "profile"} : net = {} /\ OpenSettings(t)
  \/ \E r \in net : ProfileLoaded(r, Failure("network"))
  \/ \E v \in PasswordInputs : net = {} /\ ~changeEmailOpen /\ PasswordSave(v)
  \/ \E r \in net : PasswordFail(r, HttpError({"current"}))
  \/ net = {} /\ OpenChangeEmail
  \/ net = {} /\ CloseChangeEmail
  \/ \E v \in EmailInputs : net = {} /\ EmailSubmit(v)
  \/ \E r \in net : EmailFail(r, HttpError({"email"}))
  \/ \E e \in {<<"displayName", <<>>>>, <<"displayName", TxtHello>>, <<"username", TxtAlice>>} :
       net = {} /\ EditField(e[1], e[2])
  \/ net = {} /\ Save
  \/ \E r \in net : \E b \in BOOLEAN : AvailabilityDone(r, Available(b))
  \/ \E r \in net : SaveDone(r, Failure("network"))

SpecForms == InitForms /\ [][NextForms]_vars

\* C22: a submission whose validator returns errors stores them as the
\* form's error map and starts no call; a profile save that fails
\* validateProfile also starts no availability lookup.
C22_InvalidFormsStayLocal ==
  /\ [][(ev'.op \in {"LoginSubmit", "SignupSubmit", "PasswordSave"} /\ formErrors' # {})
          => net' = net /\ token' = token /\ user' = user]_vars
  /\ [][(ev'.op = "EmailSubmit" /\ emailErrors' # {}) => net' = net]_vars
  /\ [][(ev'.op = "Save" /\ activeSection = "profile" /\ validateProfile(draft) # {})
          => /\ net' = net
             /\ availabilityRequestRef' = availabilityRequestRef
             /\ availability' = availability
             /\ profileErrors' = validateProfile(draft)
             /\ ~isSaving']_vars

\* a profile save stopped at validateProfile although its handle was new
C22_SaveStoppedBeforeLookup ==
  /\ ev.op = "Save"
  /\ profileErrors = {"displayName"}
  /\ draft.username = TxtAlice
  /\ availabilityRequestRef.username = 0
  /\ net = {}

\* the password form was refused by its validator
C22_PasswordRefusedLocally ==
  /\ ev.op = "PasswordSave"
  /\ formErrors # {}
  /\ net = {}

-----------------------------------------------------------------------------
(* Sequence numbers of the availability lookups *)

\* C23: every checkAvailability invocation on a field takes a larger
\* sequence number for that field and leaves the other field's counter and
\* status alone; the counters of a mounted page never decrease; and the
\* answer to a lookup whose number is no longer the field's latest changes
\* nothing but the set of calls in flight, from which it is removed.
C23_SequenceFencing ==
  /\ [][ev'.op = "BlurField"
          => \A f \in {"username", "profileUrl"} :
               IF f = ev'.req.field
               THEN availabilityRequestRef'[f] > availabilityRequestRef[f]
               ELSE /\ availabilityRequestRef'[f] = availabilityRequestRef[f]
                    /\ availability'[f] = availability[f]]_vars
  /\ [][route' = route
          => \A f \in {"username", "profileUrl"} :
               availabilityRequestRef'[f] >= availabilityRequestRef[f]]_vars
  /\ [][(/\ ev'.op = "AvailabilityDone"
         /\ ev'.req.live
         /\ ev'.req.seq # availabilityRequestRef[ev'.req.field])
          => /\ availability' = availability
             /\ draft' = draft /\ saved' = saved /\ isSaving' = isSaving
             /\ net' = net \ {ev'.req}]_vars

\* C24: the answer to a lookup issued for a value that the input no longer
\* holds, because the user edited the field since, does not change the
\* status of the field.
C24_EditOutdatesLookup ==
  [][(/\ ev'.op = "AvailabilityDone"
      /\ ev'.req.live
      /\ route' = "/settings"
      /\ ev'.req.value # trim(draft[ev'.req.field]))
       => availability'[ev'.req.field] = availability[ev'.req.field]]_vars

-----------------------------------------------------------------------------
(* The location and the show-location setting *)

LocationEdits ==
  { <<"location", <<>>>>, <<"location", TxtCebu>>, <<"displayName", TxtHello>>,
    <<"showLocation", FALSE>>, <<"showLocation", TRUE>>, <<"visibility", "private">> }

NextLocation ==
  \/ Boot
  \/ \E r \in net : SessionOk(r, UserMika)
  \/ \E r \in net : ProfileLoaded(r, OkProfile(ProfileOf(user)))
  \/ \E s \in {"profile", "privacy"} : net = {} /\ Clean /\ SectionChange(s)
  \/ \E e \in LocationEdits : net = {} /\ Clean /\ EditField(e[1], e[2])
  \/ net = {} /\ Save
  \/ \E r \in net : SaveDone(r, OkProfile(Applied(r)))
  \/ \E r \in net : SaveDone(r, WithUser(OkProfile(Applied(r)), UserOf(Applied(r))))
  \/ \E r \in net : SaveDone(r, OkBare)
  \/ net = {} /\ Cancel

SpecLocation == InitSave /\ [][NextLocation]_vars

\* C25: in every state saved.showLocation is true only if saved.location is
\* not empty, and the user changes draft.showLocation only while
\* saved.location is not empty.
C25_ShowLocationNeedsLocation ==
  /\ [](saved.showLocation => saved.location # <<>>)
  /\ [][(ev'.op = "EditField" /\ ev'.req.field = "showLocation")
          => saved.location # <<>>]_vars

-----------------------------------------------------------------------------
(* The profile reload of a page the user leaves alone *)

ReloadUsers == {UserMika, UserMikaEdited, UserAdmin, UserWithPhoto}

InitReload ==
  \E u \in ReloadUsers, t \in {"profile", "privacy"}, mobile \in BOOLEAN :
    InitFrom(InitWorld(StoredRecord("t1", u), "/settings", t, mobile))

\* GET /auth/session/ and GET /auth/profile/ are answered; the profile comes
\* alone or next to the user object the server holds
ReloadAnswered ==
  \/ \E r \in net : SessionOk(r, storage.user)
  \/ \E r \in net : ProfileLoaded(r, OkProfile(ProfileOf(user)))
  \/ \E r \in net : ProfileLoaded(r, WithUser(OkProfile(ProfileOf(user)), user))

NextReload ==
  \/ Boot
  \/ ReloadAnswered

SpecReload == InitReload /\ [][NextReload]_vars

\* C26: with the profile or privacy section open, a clean draft and no user
\* input, a reload that is answered with a profile, with or without a user
\* object, triggers no reload: no GET /auth/profile/ whose answer the page
\* still waits for is in flight after it.
C26_ReloadComesToRest ==
  [][(/\ ev'.op = "ProfileLoaded"
      /\ ev'.resp.status = "ok"
      /\ ev'.req.isActive)
       => \A r \in net' : ~(r.kind = "getProfile" /\ r.isActive)]_vars

\* C27: once no call is in flight profileLoading is false, so a profile
\* section with unsaved edits, no save running and no call in flight has its
\* Save and Cancel buttons enabled.
C27_LoadingFlagNotStuck ==
  /\ [](net = {} => ~profileLoading)
  /\ []((/\ SectionVisible
         /\ activeSection = "profile"
         /\ SectionChanged(saved, draft, "profile")
         /\ ~isSaving
         /\ net = {}) => FooterEnabled)

-----------------------------------------------------------------------------
(* After the logout *)

\* the session specification with a server that answers every session call
NextFinal ==
  \/ Boot
  \/ \E r \in net : SessionOk(r, UserMika)
  \/ \E v \in LoginInputs : net = {} /\ LoginSubmit(v)
  \/ \E r \in net : AuthOk(r, "t1", UserMika)
  \/ \E r \in net : AuthFail(r, HttpError({"identifier"}))
  \/ Once("status") /\ StatusSave(TxtHello)
  \/ \E r \in net : StatusDone(r, OkBare)
  \/ Once("logout") /\ LogoutStart("page")
  \/ \E r \in net : LogoutDone(r, Failure("ok"))

SpecFinal == InitStore /\ [][NextFinal]_vars

\* C28: once the logout has cleared the session (token empty, user null, no
\* stored record), it stays cleared until a login or signup succeeds.
C28_ClearedUntilLogin ==
  [][(booted /\ token = "" /\ ~user.exists /\ storage = NoRecord)
       => \/ token' = "" /\ ~user'.exists /\ storage' = NoRecord
          \/ ev'.op = "AuthOk"]_vars

-----------------------------------------------------------------------------
(* Edits and the session user *)

\* C29: a successful photo upload or removal that answers while the profile
\* section has unsaved edits leaves every draft field other than photoUrl
\* as it was, and leaves the saved notification preferences as they were.
C29_UserUpdateKeepsEdits ==
  [][(/\ ev'.op = "PhotoDone"
      /\ ev'.resp.status = "ok"
      /\ SectionChanged(saved, draft, "profile"))
       => /\ \A f \in (DOMAIN draft) \ {"photoUrl"} : draft'[f] = draft[f]
          /\ \A f \in NotificationFields : saved'[f] = saved[f]]_vars

-----------------------------------------------------------------------------
(* Loading the notification preferences *)

\* the preferences the server holds for the account
ServerPrefs ==
  [ email_notifications |-> "false", product_updates |-> "true",
    new_follower_alerts |-> "false", weekly_digest |-> "false",
    pause_notifications |-> "off" ]

PrefsEdits ==
  { <<"weeklyDigest", TRUE>>, <<"weeklyDigest", FALSE>>,
    <<"emailNotifications", TRUE>>, <<"emailNotifications", FALSE>>,
    <<"pauseNotifications", "day">>, <<"pauseNotifications", "off">> }

InitPrefs ==
  InitFrom(InitWorld(StoredRecord("t1", UserMika), "/settings", "notifications", FALSE))

NextPrefs ==
  \/ Boot
  \/ \E r \in net : SessionOk(r, UserMika)
  \/ \E r \in net : NotificationsLoaded(r, OkPrefs(ServerPrefs))
  \/ \E r \in net : NotificationsLoaded(r, OkBare)
  \/ \E r \in net : NotificationsLoaded(r, Failure("network"))
  \/ \E e \in PrefsEdits : EditField(e[1], e[2])
  \/ Once("save") /\ Save
  \/ \E r \in net : SaveDone(r, OkPrefs(AppliedPrefs(r)))
  \/ \E r \in net : SaveDone(r, Failure("network"))
  \/ Cancel
  \/ \E s \in {"notifications", "appearance"} : net = {} /\ Clean /\ SectionChange(s)

SpecPrefs == InitPrefs /\ [][NextPrefs]_vars

\* C30: an answer to GET /auth/notifications/ that arrives while the
\* notifications section has unsaved edits leaves every notification field
\* of the draft as the user set it.
C30_LoadKeepsEditedPrefs ==
  [][(/\ ev'.op = "NotificationsLoaded"
      /\ SectionChanged(saved, draft, "notifications"))
       => \A f \in NotificationFields : draft'[f] = draft[f]]_vars

============================================================================
